---- MODULE Spec2Model ----
(***************************************************************************)
(* Verification model of nanobot-go: the session lane manager              *)
(* (internal/lane), the hot-swappable provider (internal/providers), the   *)
(* tool-calling loop (internal/agent) and the config hub                   *)
(* (internal/confighub).  Each subsystem has its own specification; the    *)
(* variables of the other subsystems stay at their initial value.          *)
(***************************************************************************)
EXTENDS Integers, Sequences, FiniteSets, TLC

\* ------------------------------------------------------------------------
\* Bounds of the model
\* ------------------------------------------------------------------------
\* number of Submit calls explored
MaxReq == 3
\* number of session keys
MaxKeys == 2
\* number of providers, of concurrent callers of the DynamicProvider, of
\* goroutines calling Swap, and of Swap calls explored
MaxProv == 3
MaxCallers == 2
MaxSwappers == 2
MaxSwaps == 2
\* largest AgentLoop.MaxIterations explored, and the most tool calls in one
\* provider response
MaxIterBound == 3
MaxToolCalls == 2
\* number of goroutines calling into the ConfigHub, of calls explored, of
\* AgentOverrides maps alive at a time, and of OnChange callbacks
MaxUpd == 2
MaxOps == 2
MaxMaps == 3
MaxCallbacks == 1
\* number of AgentLoops the registry creates
MaxRegs == 3
\* number of register attempts of one RegisterWithRetry call
MaxAttempts == 4
\* number of WebSocket connections made to the server
MaxConns == 2
\* number of /api/chat requests sent to the server
MaxChats == 2
\* number of HTTP requests sent to the routes of the server
MaxHttp == 2
\* number of concurrent Apply calls and of change callbacks
MaxAppliers == 2
MaxCb == 3
\* number of routeByKeyword calls compared, and keywords of one role a content holds
MaxKwCalls == 2
MaxScore == 2
\* subagents spawned, and messages other publishers put on the bus
MaxSubs == 2
MaxOther == 2
\* /api/chat requests completed, and half minutes that pass, in the load report
MaxDone == 3
MaxHalfMinutes == 4
\* RegisterWithRetry goroutines: the one of startup and those of disconnects
MaxRoutines == 3
\* register requests counted after the unregister request
MaxLate == 1

\* ------------------------------------------------------------------------
\* Program constants.  Time is counted in steps of a little more than five
\* minutes: after one step a five-minute timer has expired, after two steps
\* an instant lies more than ten minutes back.
\* ------------------------------------------------------------------------
\* time.After(5 * time.Minute) in runWorker
WorkerIdleTimeout == 1
\* time.NewTicker(5 * time.Second) in RegisterWithRetry, in steps of 5 s
RetryInterval == 1
\* time.Now().Add(-10 * time.Minute) in cleanupIdleLanes
CleanupThreshold == 2
\* make(chan laneItem, 100)
QueueCap == 100
\* make(chan ChatResult, 1)
DoneCap == 1
\* ManagerConfig.MaxLanes of the modelled manager
maxLanes == 1

ModeFollowup == "followup"
ModeCollect == "collect"
ModeInterrupt == "interrupt"
\* ManagerConfig.DefaultMode after NewManager's defaulting
defaultMode == ModeCollect

\* the session keys, numbered
Keys == 1..MaxKeys
Requests == 1..MaxReq
\* a lane object is only ever created by a Submit, so there are at most MaxReq
LaneIds == 1..MaxReq
Modes == {ModeFollowup, ModeCollect, ModeInterrupt}
\* the mode argument of Submit; "" selects the manager's default
ModeArgs == Modes \cup {""}
\* strings are sequences of characters; requests carry the one-character
\* content <<r>> and 0 stands for the newline
NL == 0

VARIABLES
  \* ---- lane manager ----
  lanes,      \* Manager.lanes: session key -> lane id, 0 when absent
  lane,       \* the lane objects ever created, with their worker's position
  nlanes,     \* number of lane objects created so far
  stopCh,     \* TRUE once Manager.Stop closed stopCh
  sweeper,    \* TRUE while the periodicCleanup goroutine runs
  req,        \* the Submit calls: position, arguments, lane obtained, return value
  done,       \* laneItem.done of each request: a channel of capacity 1
  invoked,    \* history: how many handler invocations each request was part of
  displaced,  \* history: requests dropped by processInterrupt
  arrived     \* history: the requests not yet processed, in the order in which
              \* they were put on a queue

VARIABLES
  \* ---- DynamicProvider ----
  inner,      \* DynamicProvider.inner
  call,       \* the Chat / DefaultModel calls: position, snapshot p, reply
  swap,       \* the Swap calls: position, argument
  hist,       \* history: the providers installed so far, construction first
  returned    \* history: the latest installation whose Swap (or
              \* NewDynamicProvider) has returned, as an index of hist

VARIABLES
  \* ---- AgentLoop.RunAgentLoop ----
  MaxIterations,  \* AgentLoop.MaxIterations
  lpc,            \* position of RunAgentLoop
  iteration,      \* local iteration
  toolsUsed,      \* local toolsUsed
  messages,       \* len(messages) beyond the messages passed in
  pending,        \* resp.ToolCalls not yet executed
  lastResult,     \* result of the tool call executed last
  ret,            \* the values RunAgentLoop returned
  providerCalls,  \* history: number of a.Provider.Chat calls
  requested       \* history: names of the tool calls the provider requested

VARIABLES
  \* ---- ConfigHub ----
  current,    \* *ConfigHub.current: the struct, AgentOverrides as a map id
  heap,       \* the AgentOverrides maps: map id -> agent -> AgentLLMConfig
  onChange,   \* len(ConfigHub.onChange)
  lastSeen,   \* Model and MaxTokens the callbacks were last called with
  upd,        \* the Fetch / Apply / HandleConfigUpdate calls
  nops        \* number of calls made so far

VARIABLES
  \* ---- agent Registry ----
  agents,     \* Registry.agents: agent id -> spec and loop (loop 0: no entry)
  defaultID,  \* Registry.defaultID
  nloops,     \* number of AgentLoops created so far
  rou,        \* the RegisterOrUpdate call in progress
  answer,     \* what the last lookup since the last change returned
  regOrder    \* history: the agent ids in the order of their first registration

VARIABLES
  \* ---- PoolClient.RegisterWithRetry ----
  ppc,        \* position of RegisterWithRetry
  pctx,       \* TRUE once the context passed to it is cancelled
  ticker,     \* time since the ticker was made or last fired, in steps of 5 s
  outcomes    \* history: how each register attempt ended

VARIABLES
  \* ---- cluster Server: WebSocket connections ----
  wsConns,    \* Server.wsConns: the connections in the set
  wsh,        \* position of the handleWS call of each connection
  rawClosed,  \* TRUE once the underlying connection is closed or has failed
  hb,         \* heartbeatLoop: position, snapshot taken, connections found dead
  sctx,       \* TRUE once the server context is cancelled
  shut,       \* position of the goroutine Start leaves waiting on ctx.Done()
  reRegister, \* number of "go s.ReRegisterFn()" statements executed
  leftEmpty,  \* history: connections whose removal left the set empty
  triggeredBy \* history: connections whose handler started ReRegisterFn

VARIABLES
  \* ---- cluster Server: /api/chat ----
  chat,           \* the /api/chat requests: position, request, result, response
  activeRequests, \* Server.activeRequests
  totalRequests   \* Server.totalRequests

VARIABLES
  \* ---- cluster Server: routes, API key and WebSocket fingerprint ----
  scfg,       \* ServerConfig of NewServer: made, apiKey, wsFingerprint
  hreq,       \* the HTTP requests served: path, Authorization, status, handler run
  wsreq       \* the /ws requests: fp parameter, status, frames processed

VARIABLES
  \* ---- ConfigHub: Apply and its change callbacks ----
  hmu,        \* holder of the hub's write lock, 0 when free
  cbs,        \* ConfigHub.onChange: the callbacks in registration order
  hcurrent,   \* the configuration h.current points to, by the Apply that set it
  ap,         \* the Apply calls: position, copied callbacks, callbacks invoked
  installed   \* the configuration the provider installed by callback 1 was built from

VARIABLES
  \* ---- message routing ----
  kwcall,     \* the routeByKeyword calls made: content scores, role and score returned
  rcall       \* the resolveRoute call made: its inputs and what it returned

VARIABLES
  \* ---- instance id at server start ----
  inst        \* runServer's choice of the instance id, and PoolClient.instanceID

VARIABLES
  \* ---- subagents ----
  sub,        \* per subagent: position of its goroutine, task id, iteration, announcements
  running,    \* SubagentManager.running: the task ids that have a cancel function
  inbound,    \* MessageBus.Inbound: the queued messages (0: any other message)
  subCtx      \* "cancelled" once the context given to Spawn is cancelled

VARIABLES
  \* ---- load report ----
  totalLatencyMs,  \* Server.totalLatencyMs
  lnow,            \* the time, in half minutes since the server started
  entries,         \* the /api/chat requests completed: time of completion and latency
  load             \* the last /api/load response

VARIABLES
  \* ---- runServer: registration routines and the signal handler ----
  routine,      \* position of each RegisterWithRetry goroutine
  sig,          \* position of the signal handler goroutine
  unregistered, \* TRUE once Unregister sent the unregister request
  lateRegisters \* history: register requests sent after the unregister request

laneVars == <<lanes, lane, nlanes, stopCh, sweeper, req, done, invoked, displaced, arrived>>
dpVars == <<inner, call, swap, hist, returned>>
loopVars == <<MaxIterations, lpc, iteration, toolsUsed, messages, pending, lastResult, ret,
              providerCalls, requested>>

hubVars == <<current, heap, onChange, lastSeen, upd, nops>>

regVars == <<agents, defaultID, nloops, rou, answer, regOrder>>

poolVars == <<ppc, pctx, ticker, outcomes>>

wsVars == <<wsConns, wsh, rawClosed, hb, sctx, shut, reRegister, leftEmpty, triggeredBy>>

chatVars == <<chat, activeRequests, totalRequests>>

authVars == <<scfg, hreq, wsreq>>

cbVars == <<hmu, cbs, hcurrent, ap, installed>>

routeVars == <<kwcall, rcall>>

instVars == <<inst>>

subVars == <<sub, running, inbound, subCtx>>

loadVars == <<totalLatencyMs, lnow, entries, load>>

lifeVars == <<routine, sig, unregistered, lateRegisters>>

vars == <<laneVars, dpVars, loopVars, hubVars, regVars, poolVars, wsVars, chatVars, authVars, cbVars, routeVars, instVars, subVars, loadVars, lifeVars>>

\* the state of the subsystems other than the lane manager
notLane == <<poolVars, dpVars, loopVars, hubVars, regVars, wsVars, chatVars, authVars, cbVars, routeVars, instVars, subVars, loadVars, lifeVars>>
notDP == <<poolVars, laneVars, loopVars, hubVars, regVars, wsVars, chatVars, authVars, cbVars, routeVars, instVars, subVars, loadVars, lifeVars>>
notLoop == <<poolVars, laneVars, dpVars, hubVars, regVars, wsVars, chatVars, authVars, cbVars, routeVars, instVars, subVars, loadVars, lifeVars>>
notHub == <<poolVars, laneVars, dpVars, loopVars, regVars, wsVars, chatVars, authVars, cbVars, routeVars, instVars, subVars, loadVars, lifeVars>>
\* the subsystems other than the registry and the /api/chat handler that reads it
notRegChat == <<poolVars, laneVars, dpVars, loopVars, hubVars, wsVars, authVars, cbVars, routeVars, instVars, subVars, loadVars, lifeVars>>
notReg == <<notRegChat, chatVars>>
notPool == <<laneVars, dpVars, loopVars, hubVars, regVars, wsVars, chatVars, authVars, cbVars, routeVars, instVars, subVars, loadVars, lifeVars>>
notWS == <<laneVars, dpVars, loopVars, hubVars, regVars, poolVars, chatVars, authVars, cbVars, routeVars, instVars, subVars, loadVars, lifeVars>>
notChat == <<notRegChat, regVars>>
notAuth == <<laneVars, dpVars, loopVars, hubVars, regVars, poolVars, wsVars, chatVars, cbVars, routeVars, instVars, subVars, loadVars, lifeVars>>
notCb == <<laneVars, dpVars, loopVars, hubVars, regVars, poolVars, wsVars, chatVars, authVars, routeVars, instVars, subVars, loadVars, lifeVars>>
notRoute == <<laneVars, dpVars, loopVars, hubVars, regVars, poolVars, wsVars, chatVars, authVars, cbVars, instVars, subVars, loadVars, lifeVars>>
notInst == <<laneVars, dpVars, loopVars, hubVars, regVars, poolVars, wsVars, chatVars, authVars, cbVars, routeVars, subVars, loadVars, lifeVars>>
notSub == <<laneVars, dpVars, loopVars, hubVars, regVars, poolVars, wsVars, chatVars, authVars, cbVars, routeVars, instVars, loadVars, lifeVars>>
notLoad == <<laneVars, dpVars, loopVars, hubVars, regVars, poolVars, wsVars, chatVars, authVars, cbVars, routeVars, instVars, subVars, lifeVars>>
\* the state the load report leaves alone besides its own and totalRequests
notLoadTotal == <<chat, activeRequests, laneVars, dpVars, loopVars, hubVars, regVars, poolVars, wsVars, authVars, cbVars, routeVars, instVars, subVars, lifeVars>>
notLife == <<laneVars, dpVars, loopVars, hubVars, regVars, poolVars, wsVars, chatVars, authVars, cbVars, routeVars, instVars, subVars, loadVars>>
\* the subsystems other than the WebSocket side and runServer
notWSLife == <<laneVars, dpVars, loopVars, hubVars, regVars, poolVars, chatVars, authVars, cbVars, routeVars, instVars, subVars, loadVars>>

\* ------------------------------------------------------------------------
\* Session lane manager (src/internal/lane/lane.go)
\* ------------------------------------------------------------------------
\* ChatResult{}; input is the request content of the handler invocation that
\* produced the result (empty when no invocation did)
ZeroResult == [Content |-> "", AgentID |-> "", Error |-> "", RequestsMerged |-> 0,
               input |-> <<>>]

\* faulty variant: the discarded request is handed an empty result
InterruptedResult_NoError == ZeroResult

\* the result processInterrupt hands to a discarded request
InterruptedResult == [ZeroResult EXCEPT !.Error = "interrupted by newer message"]

\* Server.laneHandler: the handler the server installs in the manager.  ok is
\* whether registry.ProcessDirect succeeded.
laneHandler(content, ok) ==
  IF ok THEN [ZeroResult EXCEPT !.Content = "reply", !.AgentID = "general", !.input = content]
        ELSE [ZeroResult EXCEPT !.Error = "process error", !.input = content]

\* ChatRequest.Content of request r
ContentOf(r) == <<r>>

\* strings.Join(elems, sep)
RECURSIVE Join(_, _)
Join(elems, sep) ==
  IF elems = <<>> THEN <<>>
  ELSE IF Len(elems) = 1 THEN elems[1]
  ELSE elems[1] \o <<sep>> \o Join(Tail(elems), sep)

\* the contents of a batch of requests
Contents(batch) == [j \in 1..Len(batch) |-> ContentOf(batch[j])]

\* Submit: if mode == "" { mode = m.defaultMode }
EffectiveMode(mode) == IF mode = "" THEN defaultMode ELSE mode

NoLane == [key |-> 0, mode |-> "", queue |-> <<>>, idle |-> FALSE, age |-> 0,
           wpc |-> "none", item |-> 0, batch |-> <<>>, content |-> <<>>,
           res |-> ZeroResult]

\* &lane{sessionKey, mode, queue: make(chan laneItem, 100), lastActive: time.Now()}
\* with its worker waiting in the select of runWorker
NewLane(k, mode) == [NoLane EXCEPT !.key = k, !.mode = mode, !.wpc = "select"]

\* cancelled: the caller's context was cancelled before Submit was called or
\* while Submit was at its first select
NewReq == [pc |-> "new", lane |-> 0, err |-> "", result |-> ZeroResult, cancelled |-> FALSE]

LaneInit ==
  /\ lanes = [k \in Keys |-> 0]
  /\ lane = [i \in LaneIds |-> NoLane]
  /\ nlanes = 0
  /\ stopCh = FALSE
  /\ sweeper = TRUE
  /\ req = [r \in Requests |-> NewReq]
  /\ done = [r \in Requests |-> <<>>]
  /\ invoked = [r \in Requests |-> 0]
  /\ displaced = {}
  /\ arrived = <<>>

\* len(m.lanes)
LenLanes(ls) == Cardinality({k \in Keys : ls[k] # 0})

\* cleanupIdleLanes: delete every lane that is idle and whose lastActive is
\* more than ten minutes old.  age is the time since lastActive.
cleanupIdleLanes(ls) ==
  [k \in Keys |->
     IF ls[k] # 0 /\ lane[ls[k]].idle /\ lane[ls[k]].age >= CleanupThreshold
     THEN 0 ELSE ls[k]]

\* the lanes map after getOrCreateLane found no lane for the key: evict when
\* at capacity, then insert the new lane
LanesAfterCreate(ls, k, id) ==
  LET kept == IF LenLanes(ls) >= maxLanes THEN cleanupIdleLanes(ls) ELSE ls
  IN [kept EXCEPT ![k] = id]

\* Submit up to and including getOrCreateLane (one critical section of m.mu).
\* Requests are numbered in the order in which they call Submit, and the
\* session keys in the order of their first use.
SubmitStart(r, k, m) ==
  /\ req[r].pc = "new"
  /\ \A q \in Requests : q < r => req[q].pc # "new"
  /\ \A j \in Keys : j < k => \E i \in LaneIds : lane[i].key = j
  /\ IF lanes[k] # 0
     THEN /\ req' = [req EXCEPT ![r] = [@ EXCEPT !.pc = "enqueue", !.lane = lanes[k]]]
          /\ UNCHANGED <<lanes, lane, nlanes>>
     ELSE /\ nlanes' = nlanes + 1
          /\ lanes' = LanesAfterCreate(lanes, k, nlanes + 1)
          /\ lane' = [lane EXCEPT ![nlanes + 1] = NewLane(k, EffectiveMode(m))]
          /\ req' = [req EXCEPT ![r] = [@ EXCEPT !.pc = "enqueue", !.lane = nlanes + 1]]
  /\ UNCHANGED <<stopCh, sweeper, done, invoked, displaced, arrived, notLane>>

\* Submit, first select: case l.queue <- item
SubmitEnqueue(r) ==
  /\ req[r].pc = "enqueue"
  /\ Len(lane[req[r].lane].queue) < QueueCap
  /\ lane' = [lane EXCEPT ![req[r].lane].queue = Append(@, r)]
  /\ req' = [req EXCEPT ![r].pc = "wait"]
  /\ arrived' = Append(arrived, r)
  /\ UNCHANGED <<lanes, nlanes, stopCh, sweeper, done, invoked, displaced, notLane>>

\* Submit, either select: case <-ctx.Done(): return ChatResult{}, ctx.Err().
\* The step is the cancellation of the caller's context together with the
\* select taking that case: a context cancelled while Submit goes on to take
\* the other case is not told apart from one cancelled after the return.
SubmitCtxDone(r) ==
  /\ req[r].pc \in {"enqueue", "wait"}
  /\ req' = [req EXCEPT ![r] = [@ EXCEPT !.pc = "done", !.err = "ctx", !.result = ZeroResult,
                                           !.lane = 0]]
  /\ UNCHANGED <<lanes, lane, nlanes, stopCh, sweeper, done, invoked, displaced, arrived, notLane>>

\* the caller's context is cancelled before Submit is called or while Submit
\* is at its first select
CtxCancel(r) ==
  /\ req[r].pc \in {"new", "enqueue"}
  /\ ~req[r].cancelled
  /\ req' = [req EXCEPT ![r].cancelled = TRUE]
  /\ UNCHANGED <<lanes, lane, nlanes, stopCh, sweeper, done, invoked, displaced, arrived, notLane>>

\* Submit, either select with a context that is already cancelled: the case
\* <-ctx.Done() is ready next to whichever other case is, and is the one taken
SubmitCtxReady(r) ==
  /\ req[r].pc \in {"enqueue", "wait"}
  /\ req[r].cancelled
  /\ req' = [req EXCEPT ![r] = [@ EXCEPT !.pc = "done", !.err = "ctx", !.result = ZeroResult,
                                           !.lane = 0]]
  /\ UNCHANGED <<lanes, lane, nlanes, stopCh, sweeper, done, invoked, displaced, arrived, notLane>>

\* Submit, second select: case result := <-item.done: return result, nil
SubmitRecv(r) ==
  /\ req[r].pc = "wait"
  /\ done[r] # <<>>
  /\ req' = [req EXCEPT ![r] = [@ EXCEPT !.pc = "done", !.err = "nil", !.result = Head(done[r]),
                                           !.lane = 0]]
  /\ done' = [done EXCEPT ![r] = Tail(@)]
  /\ UNCHANGED <<lanes, lane, nlanes, stopCh, sweeper, invoked, displaced, arrived, notLane>>

\* m.handler(context.Background(), request) is entered for the requests of
\* batch: each of them has been part of one more invocation
Invoke(batch) ==
  [r \in Requests |-> IF \E j \in 1..Len(batch) : batch[j] = r THEN invoked[r] + 1
                                                                ELSE invoked[r]]

\* arrived without the requests of batch
Forget(batch) == SelectSeq(arrived, LAMBDA r : \A j \in 1..Len(batch) : batch[j] # r)

\* runWorker, case item := <-l.queue: mark the lane active and enter the
\* processing function of the lane's mode (processFollowup calls the handler
\* at once; any mode that is none of the three is processed as Followup)
WorkerDequeue(i) ==
  /\ lane[i].wpc = "select"
  /\ lane[i].queue # <<>>
  /\ LET item == Head(lane[i].queue)
         next == CASE lane[i].mode = ModeCollect -> "collect"
                   [] lane[i].mode = ModeInterrupt -> "drain"
                   [] OTHER -> "handle"
     IN /\ lane' = [lane EXCEPT ![i] = [@ EXCEPT !.queue = Tail(@), !.idle = FALSE, !.age = 0,
                                                 !.wpc = next, !.item = item,
                                                 !.batch = <<item>>,
                                                 !.content = IF next = "handle"
                                                             THEN ContentOf(item) ELSE <<>>]]
        /\ invoked' = IF next = "handle" THEN Invoke(<<item>>) ELSE invoked
  /\ UNCHANGED <<lanes, nlanes, stopCh, sweeper, req, done, displaced, arrived, notLane>>

\* the lane once runWorker has returned: its queue stays, nothing reads the
\* other fields of a lane that has left the map; a lane that is still in the
\* map keeps its idle flag and lastActive for cleanupIdleLanes
Returned(l) ==
  IF lanes[l.key] # 0 /\ lane[lanes[l.key]] = l /\ stopCh
  THEN [l EXCEPT !.wpc = "dead"]
  ELSE [l EXCEPT !.wpc = "dead", !.idle = FALSE, !.age = 0, !.mode = ""]

\* runWorker, case <-time.After(5 * time.Minute): the timer fires while the
\* worker is parked in the select, which settles the select on that branch.
\* (With an item in the queue the select is already settled on the item.)
WorkerTimeout(i) ==
  /\ lane[i].wpc = "select"
  /\ lane[i].queue = <<>>
  /\ lane[i].age >= WorkerIdleTimeout
  /\ lane' = [lane EXCEPT ![i].wpc = "exiting"]
  /\ UNCHANGED <<lanes, nlanes, stopCh, sweeper, req, done, invoked, displaced, arrived, notLane>>

\* runWorker, timeout branch: delete(m.lanes, l.sessionKey) under m.mu, return
WorkerExit(i) ==
  /\ lane[i].wpc = "exiting"
  /\ lanes' = [lanes EXCEPT ![lane[i].key] = 0]
  /\ lane' = [lane EXCEPT ![i] = Returned(lane[i])]
  /\ UNCHANGED <<nlanes, stopCh, sweeper, req, done, invoked, displaced, arrived, notLane>>

\* runWorker, case <-m.stopCh: return
WorkerStop(i) ==
  /\ lane[i].wpc = "select"
  /\ stopCh
  /\ lane' = [lane EXCEPT ![i] = Returned(lane[i])]
  /\ UNCHANGED <<lanes, nlanes, stopCh, sweeper, req, done, invoked, displaced, arrived, notLane>>

\* processCollect, case extra := <-l.queue
CollectExtra(i) ==
  /\ lane[i].wpc = "collect"
  /\ lane[i].queue # <<>>
  /\ lane' = [lane EXCEPT ![i] = [@ EXCEPT !.queue = Tail(@),
                                              !.batch = Append(@, Head(lane[i].queue))]]
  /\ UNCHANGED <<lanes, nlanes, stopCh, sweeper, req, done, invoked, displaced, arrived, notLane>>

\* processCollect, case <-timer.C: the window closes and the handler is
\* called with the merged request
CollectClose(i) ==
  /\ lane[i].wpc = "collect"
  /\ lane' = [lane EXCEPT ![i] = [@ EXCEPT !.wpc = "handle",
                                              !.content = Join(Contents(lane[i].batch), NL)]]
  /\ invoked' = Invoke(lane[i].batch)
  /\ UNCHANGED <<lanes, nlanes, stopCh, sweeper, req, done, displaced, arrived, notLane>>

\* the request processInterrupt currently keeps as latest
Latest(i) == lane[i].batch[Len(lane[i].batch)]

\* processInterrupt, case newer := <-l.queue: the request kept so far gets
\* the interrupted result on its done channel and newer becomes latest
InterruptNewer(i) ==
  /\ lane[i].wpc = "drain"
  /\ lane[i].queue # <<>>
  /\ Len(done[Latest(i)]) < DoneCap
  /\ done' = [done EXCEPT ![Latest(i)] = Append(@, InterruptedResult)]
  /\ displaced' = displaced \cup {Latest(i)}
  /\ lane' = [lane EXCEPT ![i] = [@ EXCEPT !.queue = Tail(@),
                                              !.batch = <<Head(lane[i].queue)>>]]
  /\ arrived' = Forget(lane[i].batch)
  /\ UNCHANGED <<lanes, nlanes, stopCh, sweeper, req, invoked, notLane>>

\* processInterrupt, default: the queue is empty, the handler is called
\* with latest
InterruptProcess(i) ==
  /\ lane[i].wpc = "drain"
  /\ lane[i].queue = <<>>
  /\ lane' = [lane EXCEPT ![i] = [@ EXCEPT !.wpc = "handle",
                                              !.content = ContentOf(Latest(i))]]
  /\ invoked' = Invoke(lane[i].batch)
  /\ UNCHANGED <<lanes, nlanes, stopCh, sweeper, req, done, displaced, arrived, notLane>>

\* faulty variant: processCollect counts the extras only
ProcessResult_CountExtras(mode, h, batch) ==
  IF mode = ModeCollect THEN [h EXCEPT !.RequestsMerged = Len(batch) - 1] ELSE h

\* the result the processing function returns to runWorker once the handler
\* has returned h: processCollect sets RequestsMerged, the others pass h on
ProcessResult(mode, h, batch) ==
  IF mode = ModeCollect THEN [h EXCEPT !.RequestsMerged = Len(batch)] ELSE h

\* the requests processCollect sends the result to itself: the extras
Extras(mode, batch) ==
  IF mode = ModeCollect THEN {batch[j] : j \in 2..Len(batch)} ELSE {}

\* the handler returns; processCollect sends the result to every extra
\* (their done channels have room: nothing else writes to them)
HandlerReturn(i, ok) ==
  /\ lane[i].wpc = "handle"
  /\ LET result == ProcessResult(lane[i].mode, laneHandler(lane[i].content, ok),
                                  lane[i].batch)
         extras == Extras(lane[i].mode, lane[i].batch)
     IN /\ \A e \in extras : Len(done[e]) < DoneCap
        /\ done' = [r \in Requests |-> IF r \in extras THEN Append(done[r], result) ELSE done[r]]
        /\ lane' = [lane EXCEPT ![i] = [@ EXCEPT !.wpc = "deliver", !.res = result]]
  /\ UNCHANGED <<lanes, nlanes, stopCh, sweeper, req, invoked, displaced, arrived, notLane>>

\* the request runWorker sends the result to
Recipient(i) == lane[i].item

\* runWorker: item.done <- result, then the lane becomes idle and the worker
\* goes back to its select
WorkerDeliver(i) ==
  /\ lane[i].wpc = "deliver"
  /\ Len(done[Recipient(i)]) < DoneCap
  /\ done' = [done EXCEPT ![Recipient(i)] = Append(@, lane[i].res)]
  /\ lane' = [lane EXCEPT ![i] = [@ EXCEPT !.wpc = "select", !.idle = TRUE, !.age = 0,
                                              !.item = 0, !.batch = <<>>, !.content = <<>>,
                                              !.res = ZeroResult]]
  /\ arrived' = Forget(lane[i].batch)
  /\ UNCHANGED <<lanes, nlanes, stopCh, sweeper, req, invoked, displaced, notLane>>

\* periodicCleanup, case <-ticker.C: cleanupIdleLanes under m.mu.  The
\* interval is configuration; the sweep may come at any time.
PeriodicCleanup ==
  /\ sweeper
  /\ lanes' = cleanupIdleLanes(lanes)
  /\ UNCHANGED <<lane, nlanes, stopCh, sweeper, req, done, invoked, displaced, arrived, notLane>>

\* periodicCleanup, case <-m.stopCh: return
SweeperStop ==
  /\ sweeper
  /\ stopCh
  /\ sweeper' = FALSE
  /\ UNCHANGED <<lanes, lane, nlanes, stopCh, req, done, invoked, displaced, arrived, notLane>>

\* Manager.Stop: close(m.stopCh)
Stop ==
  /\ ~stopCh
  /\ stopCh' = TRUE
  /\ UNCHANGED <<lanes, lane, nlanes, sweeper, req, done, invoked, displaced, arrived, notLane>>

\* how far the time since lastActive can still be observed: by
\* cleanupIdleLanes while the lane is idle and in the map, by the timer of the
\* select while the worker waits there
AgeCap(i) ==
  IF lane[i].idle /\ lanes[lane[i].key] = i THEN CleanupThreshold
  ELSE IF lane[i].wpc = "select" THEN WorkerIdleTimeout
  ELSE 0

\* a little more than five minutes pass
Tick ==
  /\ \E i \in LaneIds : lane[i].wpc # "none" /\ lane[i].age < AgeCap(i)
  /\ lane' = [i \in LaneIds |->
                IF lane[i].wpc # "none" /\ lane[i].age < AgeCap(i)
                THEN [lane[i] EXCEPT !.age = @ + 1] ELSE lane[i]]
  /\ UNCHANGED <<lanes, nlanes, stopCh, sweeper, req, done, invoked, displaced, arrived, notLane>>

\* ------------------------------------------------------------------------
\* DynamicProvider (src/internal/lane/lane.go, package providers)
\* ------------------------------------------------------------------------
Providers == 1..MaxProv
Callers == 1..MaxCallers
Swappers == 1..MaxSwappers
Kinds == {"Chat", "DefaultModel"}

NoCall == [pc |-> "idle", kind |-> "", p |-> 0, servedBy |-> 0, reply |-> <<>>,
           h0 |-> 0, h1 |-> 0]
NoSwap == [pc |-> "idle", arg |-> 0, idx |-> 0]

\* NewDynamicProvider(initial) has returned, with provider 1 as initial
DPInit ==
  /\ inner = 1
  /\ call = [c \in Callers |-> NoCall]
  /\ swap = [s \in Swappers |-> NoSwap]
  /\ hist = <<1>>
  /\ returned = 1

\* what provider p answers: its DefaultModel, or the response of its Chat
ReplyOf(p, kind) == IF kind = "DefaultModel" THEN <<"model", p>> ELSE <<"response", p>>

\* a caller enters Chat or DefaultModel; h0 remembers which installation was
\* the latest whose Swap had returned
CallBegin(c, kind) ==
  /\ call[c].pc \in {"idle", "done"}
  /\ call' = [call EXCEPT ![c] = [NoCall EXCEPT !.pc = "begun", !.kind = kind, !.h0 = returned]]
  /\ UNCHANGED <<inner, swap, hist, returned, notDP>>

\* d.mu.RLock(); p := d.inner; d.mu.RUnlock()
CallSnapshot(c) ==
  /\ call[c].pc = "begun"
  /\ call' = [call EXCEPT ![c] = [@ EXCEPT !.pc = "snapshot", !.p = inner, !.h1 = Len(hist)]]
  /\ UNCHANGED <<inner, swap, hist, returned, notDP>>

\* faulty variant: the call goes to d.inner, read again after the unlock
Serving_Reread(c) == inner

\* the provider the call is delegated to: the local p
Serving(c) == call[c].p

\* return p.Chat(ctx, req) / return p.DefaultModel(): the inner call starts
CallDelegate(c) ==
  /\ call[c].pc = "snapshot"
  /\ call' = [call EXCEPT ![c] = [@ EXCEPT !.pc = "inflight", !.servedBy = Serving(c)]]
  /\ UNCHANGED <<inner, swap, hist, returned, notDP>>

\* the inner call returns and its value is passed on
CallReturn(c) ==
  /\ call[c].pc = "inflight"
  /\ call' = [call EXCEPT ![c] = [@ EXCEPT !.pc = "done",
                                               !.reply = ReplyOf(call[c].servedBy, call[c].kind)]]
  /\ UNCHANGED <<inner, swap, hist, returned, notDP>>

\* the Swap calls begun so far
SwapsBegun == Len(hist) - 1 + Cardinality({s \in Swappers : swap[s].pc = "called"})

\* a goroutine calls Swap(newProvider)
SwapBegin(s, p) ==
  /\ swap[s].pc = "idle"
  /\ SwapsBegun < MaxSwaps
  /\ swap' = [swap EXCEPT ![s] = [NoSwap EXCEPT !.pc = "called", !.arg = p]]
  /\ UNCHANGED <<inner, call, hist, returned, notDP>>

\* d.mu.Lock(); d.inner = newProvider; d.mu.Unlock()
SwapWrite(s) ==
  /\ swap[s].pc = "called"
  /\ inner' = swap[s].arg
  /\ hist' = Append(hist, swap[s].arg)
  /\ swap' = [swap EXCEPT ![s] = [@ EXCEPT !.pc = "written", !.idx = Len(hist) + 1]]
  /\ UNCHANGED <<call, returned, notDP>>

\* Swap returns
SwapReturn(s) ==
  /\ swap[s].pc = "written"
  /\ returned' = IF swap[s].idx > returned THEN swap[s].idx ELSE returned
  /\ swap' = [swap EXCEPT ![s] = NoSwap]
  /\ UNCHANGED <<inner, call, hist, notDP>>

DPNext ==
  \/ \E c \in Callers, kind \in Kinds : CallBegin(c, kind)
  \/ \E c \in Callers : CallSnapshot(c)
  \/ \E c \in Callers : CallDelegate(c)
  \/ \E c \in Callers : CallReturn(c)
  \/ \E s \in Swappers, p \in Providers : SwapBegin(s, p)
  \/ \E s \in Swappers : SwapWrite(s)
  \/ \E s \in Swappers : SwapReturn(s)

\* ------------------------------------------------------------------------
\* AgentLoop.RunAgentLoop (src/internal/agent/loop.go)
\* ------------------------------------------------------------------------
\* names a provider response may ask for; only the first is in a.Tools
ToolNames == {"read_file", "bogus"}
Registered == {"read_file"}
\* resp.ToolCalls of a response that has tool calls, as the sequence of names
ToolCallLists == UNION {[1..n -> ToolNames] : n \in 1..MaxToolCalls}
\* *resp.Content of a final response; a nil Content reads as ""
FinalContents == {"", "hello"}

NoReturn == [content |-> "", toolsUsed |-> <<>>, err |-> "", why |-> ""]

LoopInit ==
  /\ MaxIterations = 0
  /\ lpc = "new"
  /\ iteration = 0
  /\ toolsUsed = <<>>
  /\ messages = 0
  /\ pending = <<>>
  /\ lastResult = ""
  /\ ret = NoReturn
  /\ providerCalls = 0
  /\ requested = <<>>

\* RunAgentLoop is called on an AgentLoop whose MaxIterations is m >= 0
\* (NewAgentLoop turns a configured 0 into 20, a literal can hold 0):
\* iteration := 0; var toolsUsed []string
LoopStart(m) ==
  /\ lpc = "new"
  /\ MaxIterations' = m
  /\ lpc' = "loop"
  /\ UNCHANGED <<iteration, toolsUsed, messages, pending, lastResult, ret, providerCalls,
                 requested, notLoop>>

\* for iteration < a.MaxIterations { iteration++; a.Provider.Chat(...) is called
LoopEnter ==
  /\ lpc = "loop"
  /\ iteration < MaxIterations
  /\ iteration' = iteration + 1
  /\ providerCalls' = providerCalls + 1
  /\ lpc' = "chat"
  /\ UNCHANGED <<MaxIterations, toolsUsed, messages, pending, lastResult, ret, requested,
                 notLoop>>

\* the loop condition fails: return "Max iterations reached", toolsUsed, nil
LoopCap ==
  /\ lpc = "loop"
  /\ ~(iteration < MaxIterations)
  /\ ret' = [content |-> "Max iterations reached", toolsUsed |-> toolsUsed, err |-> "nil",
             why |-> "cap"]
  /\ lpc' = "done"
  /\ UNCHANGED <<MaxIterations, iteration, toolsUsed, messages, pending, lastResult,
                 providerCalls, requested, notLoop>>

\* Chat returns an error: return "", toolsUsed, fmt.Errorf("LLM chat: %w", err)
ChatError ==
  /\ lpc = "chat"
  /\ ret' = [content |-> "", toolsUsed |-> toolsUsed, err |-> "LLM chat", why |-> "error"]
  /\ lpc' = "done"
  /\ UNCHANGED <<MaxIterations, iteration, toolsUsed, messages, pending, lastResult,
                 providerCalls, requested, notLoop>>

\* Chat returns a response without tool calls: return content, toolsUsed, nil
ChatContent(content) ==
  /\ lpc = "chat"
  /\ ret' = [content |-> content, toolsUsed |-> toolsUsed, err |-> "nil", why |-> "final"]
  /\ lpc' = "done"
  /\ UNCHANGED <<MaxIterations, iteration, toolsUsed, messages, pending, lastResult,
                 providerCalls, requested, notLoop>>

\* Chat returns a response with the tool calls tcs: the assistant message is
\* added and the tool calls wait to be executed
ChatToolCalls(tcs) ==
  /\ lpc = "chat"
  /\ messages' = messages + 1
  /\ pending' = tcs
  /\ requested' = requested \o tcs
  /\ lpc' = "tools"
  /\ UNCHANGED <<MaxIterations, iteration, toolsUsed, lastResult, ret, providerCalls, notLoop>>

\* faulty variant: only the tools found in the registry are recorded
Used_KnownOnly(used, name) == IF name \in Registered THEN Append(used, name) ELSE used

\* toolsUsed = append(toolsUsed, tc.Name)
Used(used, name) == Append(used, name)

\* the result string of one tool call: tool.Execute's result or its error, or
\* the unknown-tool error when a.Tools.Get returns nil
ToolResult(name, ok) ==
  IF name \notin Registered THEN "Error: unknown tool"
  ELSE IF ok THEN "result" ELSE "Error: execute"

\* one round of `for _, tc := range resp.ToolCalls`; ok is whether the tool's
\* Execute succeeds.  After the last tool call the loop condition is next.
ExecTool(ok) ==
  /\ lpc = "tools"
  /\ Head(pending) \notin Registered => ok
  /\ toolsUsed' = Used(toolsUsed, Head(pending))
  /\ lastResult' = ToolResult(Head(pending), ok)
  /\ messages' = messages + 1
  /\ pending' = Tail(pending)
  /\ lpc' = IF Tail(pending) = <<>> THEN "loop" ELSE "tools"
  /\ UNCHANGED <<MaxIterations, iteration, ret, providerCalls, requested, notLoop>>

\* how a call of Provider.Chat can fail: the request cannot be built, the HTTP
\* request fails, the endpoint answers with a status other than 200, the body
\* of a 200 answer does not parse
ChatFailures == {"bad request", "transport error", "non-200", "bad body"}

\* faulty variant: a failed HTTP request is returned as an error
ProviderChat_ErrOnTransport(failure) ==
  CASE failure = "non-200" -> [content |-> "Error calling LLM (HTTP)", err |-> "nil"]
    [] failure = "bad body" -> [content |-> "Error parsing response", err |-> "nil"]
    [] OTHER -> [content |-> "", err |-> failure]

\* Provider.Chat on a failure: the response and error it returns.  Only a
\* request that cannot be marshalled or created gives an error; a failed HTTP
\* request, a status other than 200 and a body that does not parse give an
\* LLMResponse whose content reports the error, with a nil error
ProviderChat(failure) ==
  CASE failure = "transport error" -> [content |-> "Error calling LLM", err |-> "nil"]
    [] failure = "non-200" -> [content |-> "Error calling LLM (HTTP)", err |-> "nil"]
    [] failure = "bad body" -> [content |-> "Error parsing response", err |-> "nil"]
    [] OTHER -> [content |-> "", err |-> "create request"]

\* Provider.Chat fails in this iteration: RunAgentLoop returns the error
\* wrapped, or takes the response, which has no tool calls, as the final one
ChatFails(failure) ==
  /\ lpc = "chat"
  /\ ret' = IF ProviderChat(failure).err # "nil"
            THEN [content |-> "", toolsUsed |-> toolsUsed, err |-> "LLM chat", why |-> failure]
            ELSE [content |-> ProviderChat(failure).content, toolsUsed |-> toolsUsed,
                  err |-> "nil", why |-> failure]
  /\ lpc' = "done"
  /\ UNCHANGED <<MaxIterations, iteration, toolsUsed, messages, pending, lastResult,
                 providerCalls, requested, notLoop>>

\* AgentLoop.ProcessDirect after RunAgentLoop returned r: the error as it is,
\* otherwise the content, "Completed processing." for an empty one
ProcessDirect(r) ==
  IF r.err # "nil" THEN [content |-> "", err |-> r.err]
  ELSE [content |-> IF r.content = "" THEN "Completed processing." ELSE r.content,
        err |-> "nil"]

LoopNext ==
  \/ \E m \in 0..MaxIterBound : LoopStart(m)
  \/ LoopEnter
  \/ LoopCap
  \/ ChatError
  \/ \E content \in FinalContents : ChatContent(content)
  \/ \E tcs \in ToolCallLists : ChatToolCalls(tcs)
  \/ \E ok \in BOOLEAN : ExecTool(ok)

\* ------------------------------------------------------------------------
\* ConfigHub (src/unnamed/part_009, package confighub)
\* ------------------------------------------------------------------------
Updaters == 1..MaxUpd
MapIds == 1..MaxMaps
Agents == {"a1", "a2"}

\* AgentLLMConfig{} and LLMConfig{}.  Of the scalar fields Model and MaxTokens
\* are kept: APIKey, APIBase, Provider and Temperature are read and written
\* like them by every operation.  AgentOverrides 0 is the nil map.
ZeroAgent == [Model |-> "", MaxTokens |-> 0]
ZeroConfig == [Model |-> "", MaxTokens |-> 0, AgentOverrides |-> 0]

\* a map without entries
EmptyMap == [a \in {} |-> ZeroAgent]

\* JSON values: absent, a string, a number, an object of per-agent objects
J(t, str, num, obj) == [t |-> t, s |-> str, n |-> num, o |-> obj]
JAbsent == J("absent", "", 0, EmptyMap)
JStr(v) == J("str", v, 0, EmptyMap)
JNum(k) == J("num", "", k, EmptyMap)
JObj(o) == J("obj", "", 0, o)

\* a JSON object for AgentLLMConfig: which fields it has, and their values
JAgent(hasModel, model, hasMaxTokens, maxTokens) ==
  [hasModel |-> hasModel, model |-> model, hasMaxTokens |-> hasMaxTokens,
   maxTokens |-> maxTokens]

\* the JSON documents explored: {"model": "m2"}, {"maxTokens": 2},
\* {"maxTokens": "m2"} (a string where a number belongs),
\* {"agentOverrides": {"a1": {"model": "m2"}}},
\* {"agentOverrides": {"a2": {"maxTokens": 2}}} and their combinations
Docs ==
  [model : {JAbsent, JStr("m2")},
   maxTokens : {JAbsent, JNum(2), JStr("m2")},
   agentOverrides : {JAbsent,
                     JObj([a \in {"a1"} |-> JAgent(TRUE, "m2", FALSE, 0)]),
                     JObj([a \in {"a2"} |-> JAgent(FALSE, "", TRUE, 2)])}]

\* the documents in which every value has the type of its field
WellTyped(doc) == doc.maxTokens.t \in {"absent", "num"}

\* encoding/json decodes a map element into a fresh zero value
DecodeAgent(e) ==
  [Model |-> IF e.hasModel THEN e.model ELSE "",
   MaxTokens |-> IF e.hasMaxTokens THEN e.maxTokens ELSE 0]

\* the map a JSON object decodes to when nothing is there before
DecodeMap(o) == [a \in DOMAIN o |-> DecodeAgent(o[a])]

\* encoding/json decodes an object into an existing map entry by entry
MergeMap(old, new) ==
  [a \in (DOMAIN old) \cup (DOMAIN new) |-> IF a \in DOMAIN new THEN new[a] ELSE old[a]]

\* json.Unmarshal(doc, &cfg) with heap hp; fresh is the id a newly made map
\* gets.  An absent field leaves the struct's field alone; a string or number
\* of the right type sets it; a value of the wrong type leaves it alone and
\* makes the call return an UnmarshalTypeError after the rest is decoded; an
\* object is decoded into the map the field holds, made first when nil.
Unmarshal(doc, cfg, hp, fresh) ==
  LET target == IF cfg.AgentOverrides = 0 THEN fresh ELSE cfg.AgentOverrides
      isObj == doc.agentOverrides.t = "obj"
  IN [cfg |-> [Model |-> IF doc.model.t = "str" THEN doc.model.s ELSE cfg.Model,
               MaxTokens |-> IF doc.maxTokens.t = "num" THEN doc.maxTokens.n
                                                       ELSE cfg.MaxTokens,
               AgentOverrides |-> IF isObj THEN target ELSE cfg.AgentOverrides],
      heap |-> IF isObj
               THEN [hp EXCEPT ![target] = MergeMap(hp[target], DecodeMap(doc.agentOverrides.o))]
               ELSE hp,
      err |-> doc.model.t \notin {"absent", "str"} \/ doc.maxTokens.t \notin {"absent", "num"}
              \/ doc.agentOverrides.t \notin {"absent", "obj"}]

\* what a reader of cfg sees: the scalar fields and the entries of its map
View(cfg, hp) ==
  [Model |-> cfg.Model, MaxTokens |-> cfg.MaxTokens,
   Overrides |-> IF cfg.AgentOverrides = 0 THEN EmptyMap ELSE hp[cfg.AgentOverrides]]

NoView == View(ZeroConfig, [i \in MapIds |-> EmptyMap])

\* a call: position, operation, argument, the struct it works on (merged in
\* HandleConfigUpdate, cfg in Fetch and Apply), the callbacks Apply copied,
\* its error; and as history what Current() showed when it was called and
\* when it returned, and whether no other call ran during it
NoUpd == [pc |-> "idle", op |-> "", doc |-> [model |-> JAbsent, maxTokens |-> JAbsent,
                                              agentOverrides |-> JAbsent],
          cfg |-> ZeroConfig, callbacks |-> 0, err |-> "",
          before |-> NoView, after |-> NoView, alone |-> FALSE]

\* New(fallback) has returned, with fallback = LLMConfig{Model: "m1",
\* MaxTokens: 1, AgentOverrides: {"a1": {Model: "m1", MaxTokens: 1}}}
HubInit ==
  /\ current = [Model |-> "m1", MaxTokens |-> 1, AgentOverrides |-> 1]
  /\ heap = [i \in MapIds |-> IF i = 1 THEN [a \in {"a1"} |-> [Model |-> "m1", MaxTokens |-> 1]]
                                       ELSE EmptyMap]
  /\ onChange = 0
  /\ lastSeen = [Model |-> "", MaxTokens |-> 0]
  /\ upd = [u \in Updaters |-> NoUpd]
  /\ nops = 0

\* the maps some live struct still points to
Referenced(cur, up) ==
  {cur.AgentOverrides} \cup {up[u].cfg.AgentOverrides : u \in Updaters}

\* the id of a map made now: one no live struct points to
FreshMap(cur, up) == CHOOSE i \in MapIds : i \notin Referenced(cur, up)

\* the heap without the maps nothing points to any more
Live(hp, cur, up) == [i \in MapIds |-> IF i \in Referenced(cur, up) THEN hp[i] ELSE EmptyMap]

\* u is not inside a call
Resting(u) == upd[u].pc \in {"idle", "returned"}

\* the calls after u entered operation op with argument doc at position pc,
\* working on the struct cfg
StartCall(u, op, doc, pc, cfg) ==
  [v \in Updaters |->
     IF v = u
     THEN [NoUpd EXCEPT !.pc = pc, !.op = op, !.doc = doc, !.cfg = cfg,
                        !.before = View(current, heap),
                        !.alone = \A w \in Updaters \ {u} : Resting(w)]
     ELSE IF Resting(v) THEN upd[v] ELSE [upd[v] EXCEPT !.alone = FALSE]]

\* the calls after u returned err, with Current() showing after
EndCall(u, err, after) ==
  [upd EXCEPT ![u] = [@ EXCEPT !.pc = "returned", !.err = err, !.cfg = ZeroConfig,
                               !.callbacks = 0, !.after = after]]

\* HandleConfigUpdate(data), up to h.mu.RUnlock(): merged := *h.current, a
\* copy of the struct that holds the same AgentOverrides map
HandleConfigUpdate(u, doc) ==
  /\ Resting(u)
  /\ nops < MaxOps
  /\ nops' = nops + 1
  /\ upd' = StartCall(u, "HandleConfigUpdate", doc, "unmarshal", current)
  /\ UNCHANGED <<current, heap, onChange, lastSeen, notHub>>

\* HandleConfigUpdate: json.Unmarshal(data, &merged), outside the lock; on an
\* error the call returns it, otherwise Apply(&merged) is next
HCUUnmarshal(u) ==
  /\ upd[u].pc = "unmarshal"
  /\ LET r == Unmarshal(upd[u].doc, upd[u].cfg, heap, FreshMap(current, upd))
         up == IF r.err
               THEN EndCall(u, "unmarshal config update", View(current, r.heap))
               ELSE [upd EXCEPT ![u] = [@ EXCEPT !.pc = "apply", !.cfg = r.cfg]]
     IN /\ upd' = up
        /\ heap' = Live(r.heap, current, up)
  /\ UNCHANGED <<current, onChange, lastSeen, nops, notHub>>

\* Apply, the critical section: h.current = cfg, the callbacks are copied
ApplySet(u) ==
  /\ upd[u].pc = "apply"
  /\ current' = upd[u].cfg
  /\ upd' = [upd EXCEPT ![u] = [@ EXCEPT !.pc = "notify", !.callbacks = onChange]]
  /\ heap' = Live(heap, current', upd')
  /\ UNCHANGED <<onChange, lastSeen, nops, notHub>>

\* Apply, after the unlock: every copied callback is called with cfg; return nil
ApplyNotify(u) ==
  /\ upd[u].pc = "notify"
  /\ lastSeen' = IF upd[u].callbacks > 0
                 THEN [Model |-> upd[u].cfg.Model, MaxTokens |-> upd[u].cfg.MaxTokens]
                 ELSE lastSeen
  /\ upd' = EndCall(u, "nil", View(current, heap))
  /\ heap' = Live(heap, current, upd')
  /\ UNCHANGED <<current, onChange, nops, notHub>>

\* Apply(&LLMConfig{...}) called directly; doc gives the fields the literal
\* sets, the others are zero
Apply(u, doc) ==
  /\ Resting(u)
  /\ nops < MaxOps
  /\ WellTyped(doc)
  /\ nops' = nops + 1
  /\ LET r == Unmarshal(doc, ZeroConfig, heap, FreshMap(current, upd))
     IN /\ upd' = StartCall(u, "Apply", doc, "apply", r.cfg)
        /\ heap' = r.heap
  /\ UNCHANGED <<current, onChange, lastSeen, notHub>>

\* Fetch when the registry answers 200 with body doc: the body is decoded into
\* a zero LLMConfig; a decode error is returned, otherwise Apply(&cfg) is next
Fetch(u, doc) ==
  /\ Resting(u)
  /\ nops < MaxOps
  /\ nops' = nops + 1
  /\ LET r == Unmarshal(doc, ZeroConfig, heap, FreshMap(current, upd))
         started == StartCall(u, "Fetch", doc, "apply", r.cfg)
     IN IF r.err
        THEN /\ upd' = [started EXCEPT ![u] = [@ EXCEPT !.pc = "returned", !.cfg = ZeroConfig,
                                                       !.err = "decode response",
                                                       !.after = View(current, heap)]]
             /\ heap' = heap
        ELSE /\ upd' = started
             /\ heap' = r.heap
  /\ UNCHANGED <<current, onChange, lastSeen, notHub>>

\* the errors of a Fetch that applies nothing; nil is the answer 404
FetchErrors == {"nil", "registry fetch", "registry returned HTTP"}

\* Fetch when the request fails or the answer is not 200: the current
\* configuration is kept
FetchKeep(u, err) ==
  /\ Resting(u)
  /\ nops < MaxOps
  /\ nops' = nops + 1
  /\ upd' = [StartCall(u, "Fetch", NoUpd.doc, "returned", ZeroConfig)
               EXCEPT ![u] = [@ EXCEPT !.err = err, !.after = View(current, heap)]]
  /\ UNCHANGED <<current, heap, onChange, lastSeen, notHub>>

\* OnChange(fn): h.onChange = append(h.onChange, fn)
OnChange ==
  /\ onChange < MaxCallbacks
  /\ onChange' = onChange + 1
  /\ UNCHANGED <<current, heap, lastSeen, upd, nops, notHub>>

HubNext ==
  \/ \E u \in Updaters, doc \in Docs : HandleConfigUpdate(u, doc)
  \/ \E u \in Updaters : HCUUnmarshal(u)
  \/ \E u \in Updaters : ApplySet(u)
  \/ \E u \in Updaters : ApplyNotify(u)
  \/ \E u \in Updaters, doc \in Docs : Apply(u, doc)
  \/ \E u \in Updaters, doc \in Docs : Fetch(u, doc)
  \/ \E u \in Updaters, err \in FetchErrors : FetchKeep(u, err)
  \/ OnChange

\* ------------------------------------------------------------------------
\* Agent registry (src/internal/registry/registry.go)
\* ------------------------------------------------------------------------
AgentNames == {"general", "legal"}
\* the role ids a caller may ask for
RoleNames == AgentNames \cup {"unknown"}
\* AgentSpec.Model, or the "model" entry of a pushed config; "" when not given
SpecModels == {"", "gpt"}

\* no entry in r.agents; of AgentSpec the fields IsDefault and Model are kept
NoAgent == [loop |-> 0, IsDefault |-> FALSE, Model |-> ""]
NoRou == [pc |-> "idle", id |-> "", exists |-> FALSE, model |-> ""]
NoAnswer == [fn |-> "", role |-> "", loop |-> 0]

\* NewRegistry has returned
RegInit ==
  /\ agents = [a \in AgentNames |-> NoAgent]
  /\ defaultID = ""
  /\ nloops = 0
  /\ rou = NoRou
  /\ answer = NoAnswer
  /\ regOrder = <<>>

\* the ids that have an entry in r.agents
RegisteredIds == {a \in AgentNames : agents[a].loop # 0}

\* regOrder after id was registered
Ordered(id) == IF id \in RegisteredIds THEN regOrder ELSE Append(regOrder, id)

\* Register(spec), one critical section: a new AgentLoop is stored under
\* spec.ID, replacing any entry, and a default spec sets r.defaultID
Register(id, isDefault, model) ==
  /\ nloops < MaxRegs
  /\ nloops' = nloops + 1
  /\ agents' = [agents EXCEPT ![id] = [loop |-> nloops + 1, IsDefault |-> isDefault,
                                        Model |-> model]]
  /\ defaultID' = IF isDefault THEN id ELSE defaultID
  /\ regOrder' = Ordered(id)
  /\ answer' = NoAnswer
  /\ UNCHANGED <<rou, notReg>>

\* RegisterOrUpdate(agentID, config), first critical section (read lock):
\* _, exists := r.agents[agentID]
RegisterOrUpdateCheck(id, model) ==
  /\ rou.pc = "idle"
  /\ rou' = [pc |-> "checked", id |-> id, exists |-> id \in RegisteredIds, model |-> model]
  /\ UNCHANGED <<agents, defaultID, nloops, answer, regOrder, notReg>>

\* RegisterOrUpdate, exists: the spec of the entry is updated in place
RegisterOrUpdateUpdate ==
  /\ rou.pc = "checked"
  /\ rou.exists
  /\ agents' = [agents EXCEPT ![rou.id].Model = IF rou.model # "" THEN rou.model ELSE @]
  /\ rou' = NoRou
  /\ answer' = NoAnswer
  /\ UNCHANGED <<defaultID, nloops, regOrder, notReg>>

\* RegisterOrUpdate, not exists: r.Register(AgentSpec{ID: agentID, Model: model, ...}),
\* a spec whose IsDefault is false
RegisterOrUpdateNew ==
  /\ rou.pc = "checked"
  /\ ~rou.exists
  /\ nloops < MaxRegs
  /\ nloops' = nloops + 1
  /\ agents' = [agents EXCEPT ![rou.id] = [loop |-> nloops + 1, IsDefault |-> FALSE,
                                            Model |-> rou.model]]
  /\ regOrder' = Ordered(rou.id)
  /\ rou' = NoRou
  /\ answer' = NoAnswer
  /\ UNCHANGED <<defaultID, notReg>>

\* the loop ResolveForRole and GetDefault return for r.defaultID, 0 for nil
DefaultLoop == IF defaultID # "" /\ defaultID \in RegisteredIds THEN agents[defaultID].loop ELSE 0

\* ResolveForRole(roleID): the entry of roleID, else the entry of
\* r.defaultID, else nil
ResolveForRole(role) ==
  /\ answer' = [fn |-> "ResolveForRole", role |-> role,
                loop |-> IF role \in RegisteredIds THEN agents[role].loop ELSE DefaultLoop]
  /\ UNCHANGED <<agents, defaultID, nloops, rou, regOrder, notReg>>

\* GetDefault(): the entry of r.defaultID, else the entry a range over the
\* map yields first (any entry: the iteration order of a Go map is not
\* specified), else nil
GetDefault(first) ==
  /\ first \in RegisteredIds \/ (RegisteredIds = {} /\ first = "general")
  /\ answer' = [fn |-> "GetDefault", role |-> "",
                loop |-> IF DefaultLoop # 0 THEN DefaultLoop
                         ELSE IF RegisteredIds # {} THEN agents[first].loop ELSE 0]
  /\ UNCHANGED <<agents, defaultID, nloops, rou, regOrder, notReg>>

RegNext ==
  \/ \E id \in AgentNames, isDefault \in BOOLEAN, model \in SpecModels :
       Register(id, isDefault, model)
  \/ \E id \in AgentNames, model \in SpecModels : RegisterOrUpdateCheck(id, model)
  \/ RegisterOrUpdateUpdate
  \/ RegisterOrUpdateNew
  \/ \E role \in RoleNames : ResolveForRole(role)
  \/ \E first \in AgentNames : GetDefault(first)

\* ------------------------------------------------------------------------
\* Pool client (src/internal/cluster/pool.go); a backend URL is configured
\* ------------------------------------------------------------------------
\* how a register attempt can end: postPool fails in the request, the backend
\* answers with a status other than 200, it answers 200 with a body whose
\* success is not true, it answers 200 with success = true
Outcomes == {"network error", "non-200", "not success", "success"}

PoolInit ==
  /\ ppc = "idle"
  /\ pctx = FALSE
  /\ ticker = 0
  /\ outcomes = <<>>

\* PoolClient.Register: the error it returns for an attempt that ends with
\* outcome o; only a failing postPool gives one
RegisterError(o) == o \in {"network error", "non-200"}

\* RegisterWithRetry(ctx) is called and makes its first attempt at once
RetryStart ==
  /\ ppc = "idle"
  /\ ppc' = "attempt"
  /\ UNCHANGED <<pctx, ticker, outcomes, notPool>>

\* p.Register() returns: RegisterWithRetry returns when the error is nil,
\* otherwise it waits in the select (making the ticker after the first attempt)
AttemptEnds(o) ==
  /\ ppc = "attempt"
  /\ outcomes' = Append(outcomes, o)
  /\ ppc' = IF RegisterError(o) THEN "select" ELSE "returned"
  /\ ticker' = IF outcomes = <<>> THEN 0 ELSE ticker
  /\ UNCHANGED <<pctx, notPool>>

\* case <-ticker.C: the next attempt
TickerFires ==
  /\ ppc = "select"
  /\ ticker >= RetryInterval
  /\ Len(outcomes) < MaxAttempts
  /\ ppc' = "attempt"
  /\ ticker' = 0
  /\ UNCHANGED <<pctx, outcomes, notPool>>

\* case <-ctx.Done(): return
RetryCancelled ==
  /\ ppc = "select"
  /\ pctx
  /\ ppc' = "returned"
  /\ UNCHANGED <<pctx, ticker, outcomes, notPool>>

\* the context is cancelled
PoolCtxCancel ==
  /\ ~pctx
  /\ pctx' = TRUE
  /\ UNCHANGED <<ppc, ticker, outcomes, notPool>>

\* five seconds pass
PoolTick ==
  /\ outcomes # <<>>
  /\ ppc # "returned"
  /\ ticker < RetryInterval
  /\ ticker' = ticker + 1
  /\ UNCHANGED <<ppc, pctx, outcomes, notPool>>

PoolNext ==
  \/ RetryStart
  \/ \E o \in Outcomes : AttemptEnds(o)
  \/ TickerFires
  \/ RetryCancelled
  \/ PoolCtxCancel
  \/ PoolTick

\* ------------------------------------------------------------------------
\* Cluster server, WebSocket side (src/unnamed/part_007); runServer has set
\* ReRegisterFn and no fingerprint mismatch occurs
\* ------------------------------------------------------------------------
Conns == 1..MaxConns

HBIdle == [pc |-> "idle", conns |-> {}, dead |-> {}]

\* NewServer has returned and Start has started heartbeatLoop and the
\* goroutine that waits for ctx.Done()
WSInit ==
  /\ wsConns = {}
  /\ wsh = [c \in Conns |-> "none"]
  /\ rawClosed = [c \in Conns |-> FALSE]
  /\ hb = HBIdle
  /\ sctx = FALSE
  /\ shut = "waiting"
  /\ reRegister = 0
  /\ leftEmpty = {}
  /\ triggeredBy = {}

\* handleWS up to wsUpgrader.Upgrade: the connection is hijacked; the
\* listener takes requests until srv.Shutdown has closed it
Upgrade(c) ==
  /\ wsh[c] = "none"
  /\ shut # "down"
  /\ wsh' = [wsh EXCEPT ![c] = "upgraded"]
  /\ UNCHANGED <<wsConns, rawClosed, hb, sctx, shut, reRegister, leftEmpty, triggeredBy, notWS>>

\* handleWS: s.wsConns[conn] = true under wsMu, then the read loop starts
WSAdd(c) ==
  /\ wsh[c] = "upgraded"
  /\ wsConns' = wsConns \cup {c}
  /\ wsh' = [wsh EXCEPT ![c] = "reading"]
  /\ UNCHANGED <<rawClosed, hb, sctx, shut, reRegister, leftEmpty, triggeredBy, notWS>>

\* the peer closes, the network fails or the read deadline passes
ConnFails(c) ==
  /\ wsh[c] \in {"upgraded", "reading"}
  /\ ~rawClosed[c]
  /\ rawClosed' = [rawClosed EXCEPT ![c] = TRUE]
  /\ UNCHANGED <<wsConns, wsh, hb, sctx, shut, reRegister, leftEmpty, triggeredBy, notWS>>

\* handleWS read loop: raw.ReadMessage() returns an error, break
ReadError(c) ==
  /\ wsh[c] = "reading"
  /\ rawClosed[c]
  /\ wsh' = [wsh EXCEPT ![c] = "deferred"]
  /\ UNCHANGED <<wsConns, rawClosed, hb, sctx, shut, reRegister, leftEmpty, triggeredBy, notWS>>

\* the test of the deferred function of handleWS; ReRegisterFn is not nil
Trigger(remaining) == remaining = 0

\* handleWS, the deferred function: raw.Close(), delete(s.wsConns, conn) and
\* remaining := len(s.wsConns) under wsMu, then go s.ReRegisterFn() when
\* remaining is 0
WSDefer(c) ==
  /\ wsh[c] = "deferred"
  /\ wsConns' = wsConns \ {c}
  /\ wsh' = [wsh EXCEPT ![c] = "returned"]
  /\ leftEmpty' = IF c \in wsConns /\ wsConns' = {} THEN leftEmpty \cup {c} ELSE leftEmpty
  /\ reRegister' = IF Trigger(Cardinality(wsConns')) THEN reRegister + 1 ELSE reRegister
  /\ triggeredBy' = IF Trigger(Cardinality(wsConns')) THEN triggeredBy \cup {c}
                    ELSE triggeredBy
  /\ UNCHANGED <<rawClosed, hb, sctx, shut, notWS>>

\* heartbeatLoop, case <-ticker.C; broadcastHeartbeat returns at once when
\* the set is empty and otherwise copies it under wsMu
HBSnapshot ==
  /\ hb.pc = "idle"
  /\ wsConns # {}
  /\ hb' = [pc |-> "ping", conns |-> wsConns, dead |-> {}]
  /\ UNCHANGED <<wsConns, wsh, rawClosed, sctx, shut, reRegister, leftEmpty, triggeredBy, notWS>>

\* broadcastHeartbeat, the writes: a write to a closed or failed connection
\* returns an error, a write to another connection may
HBPing(dead) ==
  /\ hb.pc = "ping"
  /\ {c \in hb.conns : rawClosed[c]} \subseteq dead
  /\ dead \subseteq hb.conns
  /\ hb' = [hb EXCEPT !.pc = IF dead = {} THEN "idle" ELSE "remove",
                      !.conns = IF dead = {} THEN {} ELSE @,
                      !.dead = dead]
  /\ UNCHANGED <<wsConns, wsh, rawClosed, sctx, shut, reRegister, leftEmpty, triggeredBy, notWS>>

\* broadcastHeartbeat, under wsMu: delete(s.wsConns, c); c.Close() for each
\* dead connection
HBRemove ==
  /\ hb.pc = "remove"
  /\ wsConns' = wsConns \ hb.dead
  /\ rawClosed' = [c \in Conns |-> rawClosed[c] \/ c \in hb.dead]
  /\ leftEmpty' = IF wsConns' = {} THEN leftEmpty \cup (wsConns \cap hb.dead) ELSE leftEmpty
  /\ hb' = HBIdle
  /\ UNCHANGED <<wsh, sctx, shut, reRegister, triggeredBy, notWS>>

\* heartbeatLoop, case <-ctx.Done(): return
HBStop ==
  /\ hb.pc = "idle"
  /\ sctx
  /\ hb' = [HBIdle EXCEPT !.pc = "returned"]
  /\ UNCHANGED <<wsConns, wsh, rawClosed, sctx, shut, reRegister, leftEmpty, triggeredBy, notWS>>

\* the server context is cancelled
WSCtxCancel ==
  /\ ~sctx
  /\ sctx' = TRUE
  /\ UNCHANGED <<wsConns, wsh, rawClosed, hb, shut, reRegister, leftEmpty, triggeredBy, notWS>>

\* Start's goroutine after <-ctx.Done(): closeAllWS() closes and deletes
\* every connection of the set under wsMu
closeAllWS ==
  /\ shut = "waiting"
  /\ sctx
  /\ wsConns' = {}
  /\ rawClosed' = [c \in Conns |-> rawClosed[c] \/ c \in wsConns]
  /\ shut' = "closed"
  /\ UNCHANGED <<wsh, hb, sctx, reRegister, leftEmpty, triggeredBy, notWS>>

\* Start's goroutine: s.srv.Shutdown closes the listener; hijacked
\* connections are neither closed nor waited for
Shutdown ==
  /\ shut = "closed"
  /\ shut' = "down"
  /\ UNCHANGED <<wsConns, wsh, rawClosed, hb, sctx, reRegister, leftEmpty, triggeredBy, notWS>>

\* WSConnectionCount()
WSConnectionCount == Cardinality(wsConns)

WSNext ==
  \/ \E c \in Conns : Upgrade(c)
  \/ \E c \in Conns : WSAdd(c)
  \/ \E c \in Conns : ConnFails(c)
  \/ \E c \in Conns : ReadError(c)
  \/ \E c \in Conns : WSDefer(c)
  \/ HBSnapshot
  \/ \E dead \in SUBSET Conns : HBPing(dead)
  \/ HBRemove
  \/ HBStop
  \/ WSCtxCancel
  \/ closeAllWS
  \/ Shutdown

\* ------------------------------------------------------------------------
\* Cluster server, /api/chat (src/unnamed/part_007); an API key is configured
\* and the registry is the one of the registry model above
\* ------------------------------------------------------------------------
Chats == 1..MaxChats

\* what withAuth and the checks at the head of handleChat make of a request
Admissions == {"unauthorized", "not POST", "invalid JSON", "no content", "accepted"}

\* the status each rejection is answered with
RejectStatus(kind) ==
  CASE kind = "unauthorized" -> 401
    [] kind = "not POST" -> 405
    [] OTHER -> 400

\* chatRequest.RoleID of an accepted request
ChatRoles == {"", "legal", "unknown"}

NoChat == [pc |-> "none", kind |-> "", role |-> "", res |-> ZeroResult, loop |-> 0,
           agent |-> "", err |-> "", status |-> 0, body |-> "", counted |-> 0]

ChatInit ==
  /\ chat = [h \in Chats |-> NoChat]
  /\ activeRequests = 0
  /\ totalRequests = 0

\* the role Server.laneHandler asks the registry for
RoleOf(role) == IF role = "" THEN "general" ELSE role

\* Registry.ResolveForRole(roleID) as ProcessDirect calls it: the loop, 0 for nil
Resolved(roleID) == IF roleID \in RegisteredIds THEN agents[roleID].loop ELSE DefaultLoop

\* Server.laneHandler with registry.ProcessDirect resolving the role: an
\* error result when no loop is found, otherwise the loop's reply under the
\* requested role id
laneHandlerFor(role) ==
  IF Resolved(RoleOf(role)) = 0
  THEN [ZeroResult EXCEPT !.Error = "no agent found for role"]
  ELSE [ZeroResult EXCEPT !.Content = "reply", !.AgentID = RoleOf(role)]

\* withAuth and handleChat up to s.activeRequests.Add(1): a request that
\* fails a check is answered at once and touches no counter
ChatArrive(h, kind, role) ==
  /\ chat[h].pc = "none"
  /\ kind = "accepted" \/ role = ""
  /\ IF kind = "accepted"
     THEN /\ chat' = [chat EXCEPT ![h] = [NoChat EXCEPT !.pc = "submit", !.kind = kind,
                                                       !.role = role]]
          /\ activeRequests' = activeRequests + 1
     ELSE /\ chat' = [chat EXCEPT ![h] = [NoChat EXCEPT !.pc = "done", !.kind = kind,
                                                       !.status = RejectStatus(kind),
                                                       !.body = kind]]
          /\ UNCHANGED activeRequests
  /\ UNCHANGED <<totalRequests, notChat>>

\* the id under which the registry holds this loop, "" when it holds it not
OwnerOf(loop) ==
  IF \E id \in RegisteredIds : agents[id].loop = loop
  THEN CHOOSE id \in RegisteredIds : agents[id].loop = loop
  ELSE ""

\* Submit returns the result the lane worker got from the handler, nil error
ChatResult(h) ==
  /\ chat[h].pc = "submit"
  /\ chat' = [chat EXCEPT ![h] = [@ EXCEPT !.pc = "respond",
                                           !.res = laneHandlerFor(chat[h].role),
                                           !.loop = Resolved(RoleOf(chat[h].role)),
                                           !.agent = OwnerOf(Resolved(RoleOf(chat[h].role)))]]
  /\ UNCHANGED <<activeRequests, totalRequests, notChat>>

\* the client goes away: r.Context() is cancelled and Submit returns its error
ChatCtxDone(h) ==
  /\ chat[h].pc = "submit"
  /\ chat' = [chat EXCEPT ![h] = [@ EXCEPT !.pc = "respond", !.err = "context canceled"]]
  /\ UNCHANGED <<activeRequests, totalRequests, notChat>>

\* handleChat after Submit: 500 with err.Error() when err is not nil,
\* otherwise 200 with result.Content
ChatRespond(h) ==
  /\ chat[h].pc = "respond"
  /\ chat' = [chat EXCEPT ![h] =
                IF chat[h].err # ""
                THEN [@ EXCEPT !.pc = "deferred", !.status = 500, !.body = chat[h].err]
                ELSE [@ EXCEPT !.pc = "deferred", !.status = 200,
                               !.body = chat[h].res.Content]]
  /\ UNCHANGED <<activeRequests, totalRequests, notChat>>

\* the deferred function of handleChat: s.activeRequests.Add(-1)
ChatDeferActive(h) ==
  /\ chat[h].pc = "deferred"
  /\ activeRequests' = activeRequests - 1
  /\ chat' = [chat EXCEPT ![h].pc = "deferred total"]
  /\ UNCHANGED <<totalRequests, notChat>>

\* faulty variant: only a request whose Submit gave no error is counted
TotalAdd_SuccessOnly(total, err) == IF err = "" THEN total + 1 ELSE total

\* s.totalRequests.Add(1) of the deferred function, run whatever err is
TotalAdd(total, err) == total + 1

\* the deferred function of handleChat: s.totalRequests.Add(1), then the
\* latency is added and handleChat returns
ChatDeferTotal(h) ==
  /\ chat[h].pc = "deferred total"
  /\ totalRequests' = TotalAdd(totalRequests, chat[h].err)
  /\ chat' = [chat EXCEPT ![h] = [@ EXCEPT !.pc = "done",
                !.counted = @ + (totalRequests' - totalRequests)]]
  /\ UNCHANGED <<activeRequests, notChat>>

ChatNext ==
  \/ \E id \in AgentNames, isDefault \in BOOLEAN : Register(id, isDefault, "")
  \/ \E h \in Chats, kind \in Admissions, role \in ChatRoles : ChatArrive(h, kind, role)
  \/ \E h \in Chats : ChatResult(h)
  \/ \E h \in Chats : ChatCtxDone(h)
  \/ \E h \in Chats : ChatRespond(h)
  \/ \E h \in Chats : ChatDeferActive(h)
  \/ \E h \in Chats : ChatDeferTotal(h)

\* ------------------------------------------------------------------------
\* Cluster server, routes and credentials (src/unnamed/part_007)
\* ------------------------------------------------------------------------
HttpIds == 1..MaxHttp

\* ServerConfig.APIKey and ServerConfig.WSFingerprint; "" is not configured
ApiKeys == {"", "k"}
Fingerprints == {"", "f"}

\* request paths; "/api/other" is a path NewServer registers no route for
Paths == {"/health", "/api/status", "/api/load", "/api/chat", "/api/agents", "/api/config",
          "/api/other"}
ApiPaths == Paths \ {"/health"}

\* values of the Authorization header ("" when absent)
AuthHeaders == {"", "k", "Bearer k", "Bearer x", "bearer k", "Bearer k "}

\* values of the fp query parameter ("" when absent)
FpParams == {"", "f", "g", "F"}

FrameTypes == {"ping", "config_update", "task"}

NoCfg == [made |-> FALSE, apiKey |-> "", wsFingerprint |-> ""]
NoHttp == [path |-> "", auth |-> "", status |-> 0, handler |-> ""]
NoWSReq == [fp |-> "", status |-> 0, frames |-> {}]

AuthInit ==
  /\ scfg = NoCfg
  /\ hreq = [h \in HttpIds |-> NoHttp]
  /\ wsreq = [c \in Conns |-> NoWSReq]

\* NewServer(cfg)
NewServer(key, fp) ==
  /\ ~scfg.made
  /\ scfg' = [made |-> TRUE, apiKey |-> key, wsFingerprint |-> fp]
  /\ UNCHANGED <<hreq, wsreq, notAuth>>

\* the handler NewServer registers for the path, "" when there is none
Route(path) ==
  CASE path = "/health" -> "handleHealth"
    [] path = "/api/status" -> "handleStatus"
    [] path = "/api/load" -> "handleLoad"
    [] path = "/api/chat" -> "handleChat"
    [] path = "/api/agents" -> "handleAgents"
    [] path = "/api/config" -> "handleConfig"
    [] OTHER -> ""

\* whether NewServer registers the route of the path wrapped in withAuth
Wrapped(path) == Route(path) \notin {"", "handleHealth"}

\* faulty variant: any Authorization header that carries the key is let through
withAuth_AnyScheme(apiKey, auth) == apiKey = "" \/ auth \in {apiKey, "Bearer " \o apiKey}

\* withAuth: the wrapped handler is called when no key is configured or the
\* Authorization header equals "Bearer " + apiKey
withAuth(apiKey, auth) == apiKey = "" \/ auth = "Bearer " \o apiKey

\* the statuses a handler may answer with
HandlerStatuses(handler) == IF handler = "handleChat" THEN {200, 400, 405, 500} ELSE {200}

\* the mux serves one request: 404 without a route, 401 from withAuth,
\* otherwise the handler runs and answers
Serve(h, path, auth, st) ==
  /\ scfg.made
  /\ hreq[h] = NoHttp
  /\ hreq' = [hreq EXCEPT ![h] =
       IF Route(path) = ""
       THEN [path |-> path, auth |-> auth, status |-> 404, handler |-> ""]
       ELSE IF Wrapped(path) /\ ~withAuth(scfg.apiKey, auth)
       THEN [path |-> path, auth |-> auth, status |-> 401, handler |-> ""]
       ELSE [path |-> path, auth |-> auth, handler |-> Route(path),
             status |-> IF st \in HandlerStatuses(Route(path)) THEN st ELSE 200]]
  /\ UNCHANGED <<scfg, wsreq, notAuth>>

\* faulty variant: a request without the parameter is let through
FingerprintOK_AbsentPasses(fingerprint, fp) == fingerprint = "" \/ fp = "" \/ fp = fingerprint

\* handleWS, fingerprint verification
FingerprintOK(fingerprint, fp) == fingerprint = "" \/ fp = fingerprint

\* handleWS, up to the upgrade: 403 on a fingerprint mismatch
WSRequest(c, fp) ==
  /\ scfg.made
  /\ wsreq[c] = NoWSReq
  /\ wsh[c] = "none"
  /\ wsreq' = [wsreq EXCEPT ![c] =
       [fp |-> fp, frames |-> {},
        status |-> IF FingerprintOK(scfg.wsFingerprint, fp) THEN 101 ELSE 403]]
  /\ UNCHANGED <<scfg, hreq, notAuth>>

\* handleWS, wsUpgrader.Upgrade for a request that passed the verification
UpgradeChecked(c) ==
  /\ wsreq[c].status = 101
  /\ Upgrade(c)

\* handleWS, read loop: a text frame is read and processed by its type
Frame(c, type) ==
  /\ wsh[c] = "reading"
  /\ ~rawClosed[c]
  /\ type \notin wsreq[c].frames
  /\ wsreq' = [wsreq EXCEPT ![c].frames = @ \cup {type}]
  /\ UNCHANGED <<scfg, hreq, notAuth>>

AuthNext ==
  \/ \E key \in ApiKeys : NewServer(key, "")
  \/ \E h \in HttpIds, path \in Paths, auth \in AuthHeaders, st \in HandlerStatuses("handleChat") :
       Serve(h, path, auth, st)

FpNext ==
  \/ \E fp \in Fingerprints : NewServer("", fp)
  \/ \E c \in Conns, fp \in FpParams : WSRequest(c, fp)
  \/ \E c \in Conns : UpgradeChecked(c)
  \/ \E c \in Conns : WSAdd(c)
  \/ \E c \in Conns, type \in FrameTypes : Frame(c, type)
  \/ \E c \in Conns : ConnFails(c)
  \/ \E c \in Conns : ReadError(c)
  \/ \E c \in Conns : WSDefer(c)

\* ------------------------------------------------------------------------
\* ConfigHub.Apply and the change callbacks (src/unnamed/part_009); Apply
\* call a installs configuration a, 0 is the fallback of New
\* ------------------------------------------------------------------------
Appliers == 1..MaxAppliers
Callbacks == 1..MaxCb

NoApply == [pc |-> "idle", atCall |-> <<>>, callbacks |-> <<>>, i |-> 0, calls |-> <<>>,
            set |-> FALSE]

CbInit ==
  /\ hmu = 0
  /\ cbs = <<>>
  /\ hcurrent = 0
  /\ ap = [a \in Appliers |-> NoApply]
  /\ installed = 0

\* c is in h.onChange
IsRegistered(c) == \E j \in 1..Len(cbs) : cbs[j] = c

\* OnChange(fn) from outside a callback: append under h.mu
CbOnChange(c) ==
  /\ hmu = 0
  /\ ~IsRegistered(c)
  /\ \A d \in Callbacks : d < c => IsRegistered(d)
  /\ cbs' = Append(cbs, c)
  /\ UNCHANGED <<hmu, hcurrent, ap, installed, notCb>>

\* Apply(cfg) is called
CbApplyCall(a) ==
  /\ ap[a].pc = "idle"
  /\ ap' = [ap EXCEPT ![a] = [@ EXCEPT !.pc = "lock", !.atCall = cbs]]
  /\ UNCHANGED <<hmu, cbs, hcurrent, installed, notCb>>

\* faulty variant: the unlock is deferred to the return of Apply
HolderAfterSet_Deferred(a) == a

\* who holds h.mu when Apply leaves its critical section: h.mu.Unlock()
\* comes before the callbacks
HolderAfterSet(a) == 0

\* Apply, the critical section: h.current = cfg, the callbacks are copied,
\* h.mu.Unlock()
CbApplySet(a) ==
  /\ ap[a].pc = "lock"
  /\ hmu = 0
  /\ hcurrent' = a
  /\ ap' = [ap EXCEPT ![a] = [@ EXCEPT !.pc = "notify", !.callbacks = cbs, !.i = 1,
                                        !.set = TRUE]]
  /\ hmu' = HolderAfterSet(a)
  /\ UNCHANGED <<cbs, installed, notCb>>

\* Apply, for _, fn := range callbacks: fn(cfg) is entered; callback 1 is
\* the one runServer registers, which swaps in a provider built from cfg
CbInvoke(a) ==
  /\ ap[a].pc = "notify"
  /\ ap[a].i <= Len(ap[a].callbacks)
  /\ ap' = [ap EXCEPT ![a] = [@ EXCEPT !.pc = "callback",
                                        !.calls = Append(@, ap[a].callbacks[ap[a].i])]]
  /\ installed' = IF ap[a].callbacks[ap[a].i] = 1 THEN a ELSE installed
  /\ UNCHANGED <<hmu, cbs, hcurrent, notCb>>

\* inside a callback: OnChange(fn), which needs h.mu
CbRegisterInside(a, c) ==
  /\ ap[a].pc = "callback"
  /\ hmu = 0
  /\ ~IsRegistered(c)
  /\ \A d \in Callbacks : d < c => IsRegistered(d)
  /\ cbs' = Append(cbs, c)
  /\ UNCHANGED <<hmu, hcurrent, ap, installed, notCb>>

\* the callback returns; it may have called Current(), which needs h.mu
\* not to be write-locked
CbReturn(a, readsCurrent) ==
  /\ ap[a].pc = "callback"
  /\ readsCurrent => hmu = 0
  /\ ap' = [ap EXCEPT ![a] = [@ EXCEPT !.pc = "notify", !.i = @ + 1]]
  /\ UNCHANGED <<hmu, cbs, hcurrent, installed, notCb>>

\* Apply returns nil after the last callback
CbApplyReturn(a) ==
  /\ ap[a].pc = "notify"
  /\ ap[a].i > Len(ap[a].callbacks)
  /\ ap' = [ap EXCEPT ![a].pc = "returned"]
  /\ hmu' = IF hmu = a THEN 0 ELSE hmu
  /\ UNCHANGED <<cbs, hcurrent, installed, notCb>>

CbNext ==
  \/ \E c \in Callbacks : CbOnChange(c)
  \/ \E a \in Appliers : CbApplyCall(a)
  \/ \E a \in Appliers : CbApplySet(a)
  \/ \E a \in Appliers : CbInvoke(a)
  \/ \E a \in Appliers, c \in Callbacks : CbRegisterInside(a, c)
  \/ \E a \in Appliers, readsCurrent \in BOOLEAN : CbReturn(a, readsCurrent)
  \/ \E a \in Appliers : CbApplyReturn(a)

\* ------------------------------------------------------------------------
\* Message routing (src/internal/cluster/pool.go, routing.go part).  A content
\* is given by the keywords and the @mentions it holds.
\* ------------------------------------------------------------------------
\* two of the roles of keywordRoutes
KwRoles == {"legal", "mechanic"}
\* per role, how many of its keywords the content holds
ScoreMaps == [KwRoles -> 0..MaxScore]
\* the orders in which a range over keywordRoutes can yield the roles
KwOrders == {<<"legal", "mechanic">>, <<"mechanic", "legal">>}

\* mentionMap: the role each @name stands for
mentionMap == [m \in {"xiang", "lawyer"} |-> IF m = "xiang" THEN "health" ELSE "legal"]
MentionOrders == {<<"xiang", "lawyer">>, <<"lawyer", "xiang">>}

\* the ids the LLM router was built with, and what its model may name
validIDs == {"general", "legal", "mechanic", "health"}
Primaries == {"", "general", "mechanic", "bogus"}
Relateds == {<<>>, <<"legal">>, <<"bogus">>}

\* s.router is nil, or callLLM failed, or the model answered raw
RouterOutcomes ==
  {[hasRouter |-> FALSE, failed |-> FALSE, raw |-> [Primary |-> "", Related |-> <<>>]],
   [hasRouter |-> TRUE, failed |-> TRUE, raw |-> [Primary |-> "", Related |-> <<>>]]}
  \cup {[hasRouter |-> TRUE, failed |-> FALSE, raw |-> [Primary |-> p, Related |-> rel]] :
          p \in Primaries, rel \in Relateds}

\* routeByKeyword: if s > bestScore
Better(s, bestScore) == s > bestScore

\* routeByKeyword(content), the range over keywordRoutes yielding the roles in
\* this order: the first role with the highest score, "" and 0 when none scores
RECURSIVE routeByKeyword(_, _)
routeByKeyword(scores, order) ==
  IF order = <<>> THEN [role |-> "", score |-> 0]
  ELSE LET n == Len(order)
           best == routeByKeyword(scores, SubSeq(order, 1, n - 1))
       IN IF Better(scores[order[n]], best.score)
          THEN [role |-> order[n], score |-> scores[order[n]]]
          ELSE best

\* checkMention(content, mentionMap), the range yielding the names in this
\* order: the role of the first name the content mentions, "" when none
RECURSIVE checkMention(_, _)
checkMention(mentions, order) ==
  IF order = <<>> THEN ""
  ELSE IF Head(order) \in mentions THEN mentionMap[Head(order)]
  ELSE checkMention(mentions, Tail(order))

\* LLMRouter.RouteMulti once callLLM returned raw (failed: with an error): an
\* invalid primary becomes "general", invalid related ids are dropped
RouteMulti(raw, failed) ==
  IF failed THEN [Primary |-> "general", Related |-> <<>>]
  ELSE [Primary |-> IF raw.Primary \in validIDs THEN raw.Primary ELSE "general",
        Related |-> SelectSeq(raw.Related, LAMBDA id : id \in validIDs)]

\* resolveRoute once the mention, the keyword result and the router's
\* result (hasRouter: s.router is not nil) are known
resolveRoute(roleID, mentioned, kw, hasRouter, result) ==
  IF roleID # "" /\ roleID # "general" THEN [resolved |-> roleID, method |-> "explicit"]
  ELSE IF mentioned # "" THEN [resolved |-> mentioned, method |-> "mention"]
  ELSE IF kw.role # "" /\ kw.score >= 2 THEN [resolved |-> kw.role, method |-> "keyword"]
  ELSE IF hasRouter /\ result.Primary # "" /\ result.Primary # "general"
       THEN [resolved |-> result.Primary, method |-> "llm"]
  ELSE IF hasRouter /\ Len(result.Related) > 0 THEN [resolved |-> "general", method |-> "llm"]
  ELSE IF kw.role # "" /\ kw.score >= 1 THEN [resolved |-> kw.role, method |-> "keyword"]
  ELSE [resolved |-> "general", method |-> "default"]

NoKwCall == [called |-> FALSE, scores |-> [r \in KwRoles |-> 0], role |-> "", score |-> 0]
NoRCall == [called |-> FALSE, roleID |-> "", mentioned |-> "", kw |-> [role |-> "", score |-> 0],
            hasRouter |-> FALSE, result |-> [Primary |-> "", Related |-> <<>>],
            resolved |-> "", method |-> ""]

RouteInit ==
  /\ kwcall = [n \in 1..MaxKwCalls |-> NoKwCall]
  /\ rcall = NoRCall

\* call n of routeByKeyword on a content with these scores
KeywordCall(n, scores, order) ==
  /\ ~kwcall[n].called
  /\ \A m \in 1..(n - 1) : kwcall[m].called
  /\ kwcall' = [kwcall EXCEPT ![n] =
       [called |-> TRUE, scores |-> scores, role |-> routeByKeyword(scores, order).role,
        score |-> routeByKeyword(scores, order).score]]
  /\ UNCHANGED <<rcall, notRoute>>

\* one call of resolveRoute
RouteCall(roleID, mentions, morder, scores, order, hasRouter, raw, failed) ==
  /\ ~rcall.called
  /\ LET mentioned == checkMention(mentions, morder)
         kw == routeByKeyword(scores, order)
         result == IF hasRouter THEN RouteMulti(raw, failed) ELSE raw
         out == resolveRoute(roleID, mentioned, kw, hasRouter, result)
     IN rcall' = [called |-> TRUE, roleID |-> roleID, mentioned |-> mentioned, kw |-> kw,
                  hasRouter |-> hasRouter, result |-> result,
                  resolved |-> out.resolved, method |-> out.method]
  /\ UNCHANGED <<kwcall, notRoute>>

RouteNext ==
  \/ \E n \in 1..MaxKwCalls, scores \in ScoreMaps, order \in KwOrders :
       KeywordCall(n, scores, order)
  \/ /\ ~rcall.called
     /\ \E roleID \in {"", "general", "legal"}, mentions \in SUBSET {"xiang", "lawyer"},
           morder \in MentionOrders, scores \in ScoreMaps, order \in KwOrders,
           ro \in RouterOutcomes :
          RouteCall(roleID, mentions, morder, scores, order, ro.hasRouter, ro.raw, ro.failed)

\* ------------------------------------------------------------------------
\* Instance id (src/unnamed/part_003 runServer, src/internal/cluster/pool.go
\* PoolClient.Bootstrap, Register, Unregister).
\* ------------------------------------------------------------------------
EnvIDs == {"", "fixed-1"}
RegURLs == {"", "http://backend"}
Hostnames == {"host-a", "host-b", "host-c"}
HostnameEnvs == {"", "pod-1"}
Ports == {8080, 9000, 18790}
\* what postPool gives Bootstrap: an error, or the instanceId field of the reply
BootstrapReplies == {"error", "", "backend-7", "backend-9"}

\* fmt.Sprintf("nanobot-%s-%d", hostname, port)
HostPortID(hostname, port) == "nanobot-" \o hostname \o "-" \o ToString(port)
\* fmt.Sprintf("nanobot-%d", port)
PortID(port) == "nanobot-" \o ToString(port)

NoInst == [pc |-> "idle", envID |-> "", regURL |-> "", hostname |-> "", hostEnv |-> "",
           port |-> 0, reply |-> "none", instanceID |-> "", clientID |-> "",
           registered |-> "none", unregistered |-> "none"]

InstInit == inst = NoInst

\* runServer up to the choice of the instance id: the environment value, or a
\* call of Bootstrap, or "nanobot-<port>" when there is no backend URL
RunServer(envID, regURL, hostname, hostEnv, port) ==
  /\ inst.pc = "idle"
  /\ inst' = [inst EXCEPT !.envID = envID, !.regURL = regURL, !.hostname = hostname,
                          !.hostEnv = hostEnv, !.port = port,
                          !.pc = IF envID = "" /\ regURL # "" THEN "bootstrap" ELSE "chosen",
                          !.instanceID = IF envID # "" THEN envID
                                         ELSE IF regURL # "" THEN "" ELSE PortID(port),
                          !.clientID = IF envID # "" THEN envID
                                       ELSE IF regURL # "" THEN "" ELSE PortID(port)]
  /\ UNCHANGED notInst

\* PoolClient.Bootstrap with a backend URL: the id of the reply, else the
\* synthesized id with the HOSTNAME environment value in place of os.Hostname
Bootstrap(reply) ==
  /\ inst.pc = "bootstrap"
  /\ LET hostname == IF inst.hostEnv # "" THEN inst.hostEnv ELSE inst.hostname
     IN inst' = [inst EXCEPT !.pc = "chosen", !.reply = reply,
                  !.instanceID = IF reply \notin {"error", ""} THEN reply
                                 ELSE HostPortID(hostname, inst.port),
                  !.clientID = IF reply \notin {"error", ""} THEN reply ELSE ""]
  /\ UNCHANGED notInst

\* PoolClient.Register: with a backend URL the register request carries
\* p.instanceID; "none" when no request is sent
InstRegister ==
  /\ inst.pc = "chosen"
  /\ inst' = [inst EXCEPT !.pc = "serving",
                          !.registered = IF inst.regURL = "" THEN "none" ELSE inst.clientID]
  /\ UNCHANGED notInst

\* PoolClient.Unregister on shutdown: nothing is sent without a backend URL
\* or when p.instanceID is empty
InstUnregister ==
  /\ inst.pc = "serving"
  /\ inst' = [inst EXCEPT !.pc = "stopped",
                          !.unregistered = IF inst.regURL = "" \/ inst.clientID = ""
                                           THEN "none" ELSE inst.clientID]
  /\ UNCHANGED notInst

InstNext ==
  \/ \E envID \in EnvIDs, regURL \in RegURLs, hostname \in Hostnames,
        hostEnv \in HostnameEnvs, port \in Ports :
       RunServer(envID, regURL, hostname, hostEnv, port)
  \/ \E reply \in BootstrapReplies : Bootstrap(reply)
  \/ InstRegister
  \/ InstUnregister

\* ------------------------------------------------------------------------
\* Subagents (src/internal/agent/skills.go SubagentManager,
\* src/internal/bus/queue.go MessageBus).
\* ------------------------------------------------------------------------
Subs == 1..MaxSubs
\* capacity of MessageBus.Inbound (100 in NewMessageBus)
InboundCap == 2
\* maxIter of runSubagent (15 in the source)
SubMaxIter == 2
\* what Provider.Chat gives one iteration: an error, a final answer, tool calls
SubChatOutcomes == {"error", "final", "tools"}

NoSub == [pc |-> "idle", taskID |-> 0, iter |-> 0, announced |-> 0]

SubInit ==
  /\ sub = [i \in Subs |-> NoSub]
  /\ running = {}
  /\ inbound = <<>>
  /\ subCtx = "live"

\* SubagentManager.RunningCount
RunningCount == Cardinality(running)

\* Spawn, its first statement: the task id is "sub-<RunningCount()+1>", the
\* count being read in a critical section of its own
Spawn(i) ==
  /\ sub[i].pc = "idle"
  /\ \A j \in Subs : j < i => sub[j].pc # "idle"
  /\ sub' = [sub EXCEPT ![i] = [NoSub EXCEPT !.pc = "spawning", !.taskID = RunningCount + 1]]
  /\ UNCHANGED <<running, inbound, subCtx, notSub>>

\* Spawn, under sm.mu: sm.running[taskID] = cancel, which replaces an entry
\* that has this id; then the goroutine is started and Spawn returns
SpawnInsert(i) ==
  /\ sub[i].pc = "spawning"
  /\ running' = running \cup {sub[i].taskID}
  /\ sub' = [sub EXCEPT ![i].pc = "chat"]
  /\ UNCHANGED <<inbound, subCtx, notSub>>

\* one iteration of runSubagent's loop: Provider.Chat returns; an error or an
\* answer without tool calls ends the loop, tool calls are executed and the
\* loop goes on until maxIter
SubChat(i, outcome) ==
  /\ sub[i].pc = "chat"
  /\ sub' = [sub EXCEPT ![i].iter = @ + 1,
                        ![i].pc = IF outcome = "tools" /\ sub[i].iter + 1 < SubMaxIter
                                  THEN "chat" ELSE "announce"]
  /\ UNCHANGED <<running, inbound, subCtx, notSub>>

\* MessageBus.PublishInbound from runSubagent: b.Inbound <- msg, which waits
\* while the channel is full
Announce(i) ==
  /\ sub[i].pc = "announce"
  /\ Len(inbound) < InboundCap
  /\ inbound' = Append(inbound, i)
  /\ sub' = [sub EXCEPT ![i].pc = "defer", ![i].announced = @ + 1]
  /\ UNCHANGED <<running, subCtx, notSub>>

\* the deferred function of the goroutine: delete(sm.running, taskID)
SubDefer(i) ==
  /\ sub[i].pc = "defer"
  /\ running' = running \ {sub[i].taskID}
  /\ sub' = [sub EXCEPT ![i].pc = "done"]
  /\ UNCHANGED <<inbound, subCtx, notSub>>

\* the context given to Spawn is cancelled
SubCtxCancel ==
  /\ subCtx = "live"
  /\ subCtx' = "cancelled"
  /\ UNCHANGED <<sub, running, inbound, notSub>>

\* a channel publishes a message of its own on the bus
PublishOther ==
  /\ Len(inbound) < InboundCap
  /\ Cardinality({k \in 1..Len(inbound) : inbound[k] = 0}) < MaxOther
  /\ inbound' = Append(inbound, 0)
  /\ UNCHANGED <<sub, running, subCtx, notSub>>

\* the gateway's loop takes a message off the bus; it returns when its
\* context is cancelled, and the manager starts no reader of its own
ConsumeInbound ==
  /\ subCtx = "live"
  /\ inbound # <<>>
  /\ inbound' = Tail(inbound)
  /\ UNCHANGED <<sub, running, subCtx, notSub>>

SubNext ==
  \/ \E i \in Subs : Spawn(i)
  \/ \E i \in Subs : SpawnInsert(i)
  \/ \E i \in Subs, outcome \in SubChatOutcomes : SubChat(i, outcome)
  \/ \E i \in Subs : Announce(i)
  \/ \E i \in Subs : SubDefer(i)
  \/ SubCtxCancel
  \/ PublishOther
  \/ ConsumeInbound

\* every step of a subagent's goroutine is taken once it stays possible
SubFairness ==
  \A i \in Subs :
    /\ WF_vars(SpawnInsert(i))
    /\ WF_vars(\E outcome \in SubChatOutcomes : SubChat(i, outcome))
    /\ WF_vars(Announce(i))
    /\ WF_vars(SubDefer(i))

\* ------------------------------------------------------------------------
\* Load report (src/unnamed/part_007 handleChat, handleLoad;
\* src/internal/cluster/latency.go).  Time is counted in half minutes.
\* ------------------------------------------------------------------------
\* the sliding window of 60 seconds, in half minutes
LatencyWindow == 2
\* time.Since(start).Milliseconds() of a request
Latencies == {10, 30}

NoLoad == [asked |-> FALSE, at |-> 0, completed |-> 0, totalRequests |-> 0, avgLatencyMs |-> 0]

LoadInit ==
  /\ totalLatencyMs = 0
  /\ lnow = 0
  /\ entries = <<>>
  /\ load = NoLoad

RECURSIVE SumLatency(_)
SumLatency(es) == IF es = <<>> THEN 0 ELSE Head(es).latency + SumLatency(Tail(es))

\* latencyWindow.Avg at time now over the recorded entries: the entries
\* before the cutoff are dropped, the rest averaged; 0 when none is left
Avg(es, now) ==
  LET cutoff == now - LatencyWindow
      kept == SelectSeq(es, LAMBDA e : ~(e.ts < cutoff))
  IN IF kept = <<>> THEN 0 ELSE SumLatency(kept) \div Len(kept)

\* the avgLatencyMs of handleLoad, of broadcastHeartbeat and of the pong reply
AvgLatencyMs(total, latencySum) == IF total > 0 THEN latencySum \div total ELSE 0

\* an accepted /api/chat request returns after latency milliseconds: its
\* deferred function has taken activeRequests back to what it was, counted
\* the request and added its latency
ChatCompleted(latency) ==
  /\ Len(entries) < MaxDone
  /\ totalRequests' = totalRequests + 1
  /\ totalLatencyMs' = totalLatencyMs + latency
  /\ entries' = Append(entries, [ts |-> lnow, latency |-> latency])
  /\ UNCHANGED <<lnow, load, notLoadTotal>>

\* half a minute passes
HalfMinute ==
  /\ lnow < MaxHalfMinutes
  /\ lnow' = lnow + 1
  /\ UNCHANGED <<totalLatencyMs, entries, load, totalRequests, notLoadTotal>>

\* GET /api/load
handleLoad ==
  /\ load' = [asked |-> TRUE, at |-> lnow, completed |-> Len(entries),
              totalRequests |-> totalRequests,
              avgLatencyMs |-> AvgLatencyMs(totalRequests, totalLatencyMs)]
  /\ UNCHANGED <<totalLatencyMs, lnow, entries, totalRequests, notLoadTotal>>

LoadNext ==
  \/ \E latency \in Latencies : ChatCompleted(latency)
  \/ HalfMinute
  \/ handleLoad

\* ------------------------------------------------------------------------
\* runServer (src/unnamed/part_003): the RegisterWithRetry goroutines started
\* at startup and by ReRegisterFn, and the handler of SIGINT / SIGTERM.  A
\* backend URL is configured and the pool client has an instance id.
\* ------------------------------------------------------------------------
Routines == 1..MaxRoutines

LifeInit ==
  /\ routine = [n \in Routines |-> "none"]
  /\ sig = "waiting"
  /\ unregistered = FALSE
  /\ lateRegisters = 0

\* the goroutines asked for so far: "go poolClient.RegisterWithRetry(ctx)" of
\* runServer and one per "go s.ReRegisterFn()" of handleWS
Asked == 1 + reRegister

\* a register request goes out: one more late one when Unregister has sent its own
RegisterSent == IF unregistered THEN lateRegisters + 1 ELSE lateRegisters

\* a RegisterWithRetry goroutine starts running and goes to its first attempt
RoutineStart(n) ==
  /\ routine[n] = "none"
  /\ n <= Asked
  /\ \A m \in Routines : m < n => routine[m] # "none"
  /\ routine' = [routine EXCEPT ![n] = "attempt"]
  /\ UNCHANGED <<sig, unregistered, lateRegisters, notLife>>

\* p.Register() sends the register request and returns: RegisterWithRetry
\* returns when the error is nil and otherwise waits in its select
RoutineRegister(n, o) ==
  /\ routine[n] = "attempt"
  /\ RegisterSent <= MaxLate
  /\ lateRegisters' = RegisterSent
  /\ routine' = [routine EXCEPT ![n] = IF RegisterError(o) THEN "select" ELSE "returned"]
  /\ UNCHANGED <<sig, unregistered, notLife>>

\* RegisterWithRetry, case <-ticker.C
RoutineTicker(n) ==
  /\ routine[n] = "select"
  /\ routine' = [routine EXCEPT ![n] = "attempt"]
  /\ UNCHANGED <<sig, unregistered, lateRegisters, notLife>>

\* RegisterWithRetry, case <-ctx.Done()
RoutineCancelled(n) ==
  /\ routine[n] = "select"
  /\ sctx
  /\ routine' = [routine EXCEPT ![n] = "returned"]
  /\ UNCHANGED <<sig, unregistered, lateRegisters, notLife>>

\* SIGINT or SIGTERM arrives: poolClient.Unregister()
SigUnregister ==
  /\ sig = "waiting"
  /\ sig' = "unregistered"
  /\ unregistered' = TRUE
  /\ UNCHANGED <<routine, lateRegisters, notLife>>

\* the signal handler: srv.Stop(), whose srv.Shutdown closes the listener and
\* leaves the hijacked WebSocket connections open; chMgr.StopAll(); nanoredis.Close()
SigStop ==
  /\ sig = "unregistered"
  /\ sig' = "stopped"
  /\ UNCHANGED <<routine, unregistered, lateRegisters, notLife>>

\* the signal handler: cancel(), which cancels the context of the server and
\* of every RegisterWithRetry
SigCancel ==
  /\ sig = "stopped"
  /\ sig' = "returned"
  /\ sctx' = TRUE
  /\ UNCHANGED <<routine, unregistered, lateRegisters, wsConns, wsh, rawClosed, hb, shut,
                 reRegister, leftEmpty, triggeredBy, notWSLife>>

\* handleWS is reached only while the listener of the server accepts
Listening == sig \in {"waiting", "unregistered"}

\* the running server from startup to the end of its shutdown
LifeNext ==
  \/ \E n \in Routines : RoutineStart(n)
  \/ \E n \in Routines, o \in Outcomes : RoutineRegister(n, o)
  \/ \E n \in Routines : RoutineTicker(n)
  \/ \E n \in Routines : RoutineCancelled(n)
  \/ SigUnregister
  \/ SigStop
  \/ SigCancel
  \/ \E c \in Conns : Listening /\ Upgrade(c)
  \/ \E c \in Conns : WSAdd(c)
  \/ \E c \in Conns : ConnFails(c)
  \/ \E c \in Conns : ReadError(c)
  \/ \E c \in Conns : WSDefer(c)
  \/ HBSnapshot
  \/ \E dead \in SUBSET Conns : HBPing(dead)
  \/ HBRemove
  \/ HBStop
  \/ closeAllWS
  \/ Shutdown

\* the initial state of every subsystem
Init ==
  /\ LaneInit /\ DPInit /\ LoopInit /\ HubInit /\ RegInit /\ PoolInit
  /\ WSInit /\ ChatInit /\ AuthInit /\ CbInit /\ RouteInit /\ InstInit
  /\ SubInit /\ LoadInit /\ LifeInit

\* The lane manager serving one session key with a handler that succeeds,
\* before Manager.Stop.
LaneNext ==
  \/ \E r \in Requests, m \in ModeArgs : SubmitStart(r, 1, m)
  \/ \E r \in Requests : SubmitEnqueue(r)
  \/ \E r \in Requests : SubmitCtxDone(r)
  \/ \E r \in Requests : SubmitRecv(r)
  \/ \E i \in LaneIds : WorkerDequeue(i)
  \/ \E i \in LaneIds : WorkerTimeout(i)
  \/ \E i \in LaneIds : WorkerExit(i)
  \/ \E i \in LaneIds : CollectExtra(i)
  \/ \E i \in LaneIds : CollectClose(i)
  \/ \E i \in LaneIds : InterruptNewer(i)
  \/ \E i \in LaneIds : InterruptProcess(i)
  \/ \E i \in LaneIds : HandlerReturn(i, TRUE)
  \/ \E i \in LaneIds : WorkerDeliver(i)
  \/ PeriodicCleanup
  \/ Tick

Spec == Init /\ [][LaneNext]_vars

\* ------------------------------------------------------------------------
\* Claims on the lane manager
\* ------------------------------------------------------------------------
\* the workers that are inside the handler for session key k
InFlight(k) == {i \in LaneIds : lane[i].key = k /\ lane[i].wpc = "handle"}

\* C1: for every sessionKey at most one handler invocation is in flight
\* across the whole manager, under any interleaving of Submit, lane creation,
\* worker idle exit, periodic sweeping and capacity eviction.
C1_OneHandlerPerSession == \A k \in Keys : Cardinality(InFlight(k)) <= 1

\* Scheduling: a goroutine that can take a step eventually takes one.  The
\* caller's context need never be cancelled and time need not pass.
LaneFairness ==
  /\ \A r \in Requests : WF_vars(SubmitEnqueue(r)) /\ WF_vars(SubmitRecv(r))
  /\ \A i \in LaneIds :
       /\ WF_vars(WorkerDequeue(i)) /\ WF_vars(WorkerExit(i))
       /\ WF_vars(CollectClose(i)) /\ WF_vars(InterruptNewer(i))
       /\ WF_vars(InterruptProcess(i)) /\ WF_vars(HandlerReturn(i, TRUE))
       /\ WF_vars(WorkerDeliver(i))

FairSpec == Spec /\ LaneFairness

\* C2: every call to Submit eventually returns (with a result delivered for
\* the request or with the error of its context); no submitted request is
\* left without a result.
C2_SubmitReturns ==
  \A r \in Requests : (req[r].pc \in {"enqueue", "wait"}) ~> (req[r].pc = "done")

\* request r has been given result res: it sits on its done channel or its
\* Submit has returned it
Has(r, res) ==
  \/ done[r] # <<>> /\ Head(done[r]) = res
  \/ req[r].pc = "done" /\ req[r].err = "nil" /\ req[r].result = res

\* the worker of lane i sends the result to the item it dequeued and goes
\* back to its select
Delivers(i) == lane[i].wpc = "deliver" /\ lane'[i].wpc = "select"

\* C3: in Interrupt mode, when a request is dequeued while newer requests are
\* queued, the handler is invoked once, on the most recent request only, and
\* the Submit call of that most recent request gets the result of that
\* invocation.
C3_InterruptLatestGetsResult ==
  [][\A i \in LaneIds :
       Delivers(i) /\ lane[i].mode = ModeInterrupt
         => /\ lane[i].res.input = ContentOf(Latest(i))
            /\ invoked[Latest(i)] = 1
            /\ \A d \in displaced : invoked[d] = 0
            /\ done'[Latest(i)] = <<lane[i].res>>]_vars

\* C4: in Interrupt mode every request displaced by a newer one receives, at
\* the moment it is displaced, a result whose error is "interrupted by newer
\* message": from then on that result is on its done channel or has been
\* returned by its Submit.
C4_DisplacedGetsInterrupted ==
  \A r \in displaced :
    \/ /\ done[r] # <<>>
       /\ Head(done[r]).Error = "interrupted by newer message"
       /\ Head(done[r]).input = <<>>
    \/ /\ req[r].pc = "done" /\ req[r].err = "nil"
       /\ req[r].result.Error = "interrupted by newer message"
       /\ req[r].result.input = <<>>

\* a Submit has returned the interrupted result while the request that
\* displaced it is being handled
C4_Witness ==
  \E r \in displaced :
    /\ req[r].pc = "done" /\ req[r].err = "nil"
    /\ req[r].result.Error = "interrupted by newer message"
    /\ \E i \in LaneIds : lane[i].wpc = "handle" /\ lane[i].item = r

\* the contents of the requests of batch, one per line
OnePerLine(batch) ==
  [j \in 1..(2 * Len(batch) - 1) |-> IF j % 2 = 1 THEN batch[(j + 1) \div 2] ELSE NL]

\* the requests of batch came in this order
InArrivalOrder(batch) ==
  SelectSeq(arrived, LAMBDA r : \E j \in 1..Len(batch) : batch[j] = r) = batch

\* C5: in Collect mode the k >= 1 requests taken within one collect window
\* cause exactly one handler invocation, whose content is the k contents
\* joined with a newline in arrival order, and each of the k requests is
\* given that same result, with requestsMerged = k.
C5_CollectMerges ==
  /\ [](\A i \in LaneIds :
          lane[i].mode = ModeCollect /\ lane[i].wpc \in {"handle", "deliver"}
            => /\ lane[i].content = OnePerLine(lane[i].batch)
               /\ InArrivalOrder(lane[i].batch)
               /\ \A j \in 1..Len(lane[i].batch) : invoked[lane[i].batch[j]] = 1)
  /\ [][\A i \in LaneIds :
          Delivers(i) /\ lane[i].mode = ModeCollect
            => /\ lane[i].res.RequestsMerged = Len(lane[i].batch)
               /\ lane[i].res.input = OnePerLine(lane[i].batch)
               /\ \A j \in 1..Len(lane[i].batch) :
                    \/ done'[lane[i].batch[j]] = <<lane[i].res>>
                    \/ /\ req[lane[i].batch[j]].pc = "done"
                       /\ req[lane[i].batch[j]].err = "nil"
                       /\ req[lane[i].batch[j]].result = lane[i].res]_vars

\* two Submit calls have returned the one result of a merged invocation
C5_Witness ==
  \E r, q \in Requests :
    /\ r < q
    /\ req[r].pc = "done" /\ req[r].err = "nil"
    /\ req[q].pc = "done" /\ req[q].err = "nil"
    /\ req[r].result = req[q].result
    /\ req[r].result.RequestsMerged = 2
    /\ Len(req[r].result.input) = 3

\* the number of messages in a handler input
Messages(input) == (Len(input) + 1) \div 2

\* C6: for every Submit that returns normally (nil error), in every mode, the
\* result has requestsMerged >= 1, equal to the number of input messages
\* coalesced into the handler call that produced it (1 when nothing was
\* merged).
C6_RequestsMergedCounts ==
  \A r \in Requests :
    req[r].pc = "done" /\ req[r].err = "nil"
      => /\ req[r].result.RequestsMerged >= 1
         /\ req[r].result.input # <<>>
              => req[r].result.RequestsMerged = Messages(req[r].result.input)

\* ------------------------------------------------------------------------
\* Claims on the DynamicProvider
\* ------------------------------------------------------------------------
\* concurrent Chat, DefaultModel and Swap calls on one DynamicProvider
SpecDP == Init /\ [][DPNext]_vars

\* C7: a call initiated after Swap(P') has returned is served by P', unless a
\* later Swap installed another provider before the call took its snapshot;
\* every call is served by a provider installed at construction or by a Swap;
\* and a call is served, to its end, by the provider that was installed when
\* it took its snapshot, whatever is swapped in while it is in flight.
C7_SwapServesNewCalls ==
  \A c \in Callers :
    call[c].pc \in {"inflight", "done"}
      => /\ \E j \in 1..Len(hist) : hist[j] = call[c].servedBy
         /\ call[c].h1 >= call[c].h0
         /\ call[c].h1 = call[c].h0 => call[c].servedBy = hist[call[c].h0]
         /\ call[c].servedBy = hist[call[c].h1]
         /\ call[c].pc = "done" => call[c].reply = ReplyOf(hist[call[c].h1], call[c].kind)

\* a call begun after a Swap returned was served by that Swap's provider and
\* completed on it although another provider had been swapped in meanwhile
C7_Witness ==
  \E c \in Callers :
    /\ call[c].pc = "done"
    /\ call[c].h0 > 1
    /\ call[c].h1 = call[c].h0
    /\ call[c].servedBy # hist[1]
    /\ call[c].servedBy # inner
    /\ Len(hist) > call[c].h1

\* ------------------------------------------------------------------------
\* Claims on the agent loop
\* ------------------------------------------------------------------------
\* One run of RunAgentLoop.  The goroutine keeps running, and the provider and
\* the tools it calls return.
SpecLoop == Init /\ [][LoopNext]_vars /\ WF_vars(LoopNext)

\* used is an initial part of all
IsPrefix(used, all) == Len(used) <= Len(all) /\ SubSeq(all, 1, Len(used)) = used

\* C8: whatever the provider and the tools answer, RunAgentLoop returns, after
\* at most MaxIterations provider calls; when it stops because of the
\* iteration cap it returns "Max iterations reached" with a nil error; and
\* the toolsUsed it returns are the names of the requested tool calls, in the
\* order in which they were requested and invoked.
C8_LoopTerminates ==
  /\ [](/\ providerCalls <= MaxIterations
        /\ IsPrefix(toolsUsed, requested)
        /\ lpc = "done" => ret.toolsUsed = requested
        /\ lpc = "done" /\ ret.why = "cap"
             => /\ ret.content = "Max iterations reached"
                /\ ret.err = "nil"
                /\ providerCalls = MaxIterations)
  /\ <>(lpc = "done")

\* a run stopped by the cap after tool calls that include an unknown tool
C8_Witness ==
  /\ lpc = "done"
  /\ ret.why = "cap"
  /\ MaxIterations >= 2
  /\ Len(ret.toolsUsed) > MaxIterations
  /\ \E j \in 1..Len(ret.toolsUsed) : ret.toolsUsed[j] = "bogus"

\* ------------------------------------------------------------------------
\* Claims on the ConfigHub
\* ------------------------------------------------------------------------
\* Fetch, Apply and HandleConfigUpdate calls on one ConfigHub
SpecHub == Init /\ [][HubNext]_vars

\* u has returned nil from operation op and no other call ran during it
Completed(u, ops) ==
  upd[u].pc = "returned" /\ upd[u].op \in ops /\ upd[u].err = "nil" /\ upd[u].alone

\* what Current() showed after the call equals the argument on the fields the
\* argument has and what Current() showed before the call on the others
MergedOver(u) ==
  /\ upd[u].after.Model =
       IF upd[u].doc.model.t = "str" THEN upd[u].doc.model.s ELSE upd[u].before.Model
  /\ upd[u].after.MaxTokens =
       IF upd[u].doc.maxTokens.t = "num" THEN upd[u].doc.maxTokens.n
                                          ELSE upd[u].before.MaxTokens
  /\ upd[u].after.Overrides =
       IF upd[u].doc.agentOverrides.t = "obj" THEN DecodeMap(upd[u].doc.agentOverrides.o)
                                               ELSE upd[u].before.Overrides

\* C9: after any history of Fetch, Apply and HandleConfigUpdate calls,
\* HandleConfigUpdate(patch) leaves Current() equal to patch on every field
\* present in patch and equal to the configuration that was current
\* immediately before the call on every field absent from patch.
C9_UpdateMergesOverCurrent ==
  \A u \in Updaters : Completed(u, {"HandleConfigUpdate"}) => MergedOver(u)

\* C10: Apply(partial), also the one Fetch performs with the registry's
\* response, yields a current configuration equal to the previous one on
\* every field omitted from partial and equal to partial on every field it
\* sets.
C10_ApplyMerges ==
  \A u \in Updaters :
    Completed(u, {"Apply", "Fetch"}) => MergedOver(u)

\* ------------------------------------------------------------------------
\* Claims on the agent registry
\* ------------------------------------------------------------------------
\* Register, RegisterOrUpdate and lookups on one Registry
SpecReg == Init /\ [][RegNext]_vars

\* the loop of the agent that was registered first, 0 when there is none
FirstRegistered == IF regOrder = <<>> THEN 0 ELSE agents[regOrder[1]].loop

\* C11: ResolveForRole(r) returns the agent r if r is registered; the default
\* agent if r is not registered; and the first registered agent if no default
\* was designated.
C11_ResolveForRole ==
  answer.fn = "ResolveForRole"
    => answer.loop = IF answer.role \in RegisteredIds THEN agents[answer.role].loop
                     ELSE IF defaultID # "" THEN agents[defaultID].loop
                     ELSE FirstRegistered

\* the registered specs whose IsDefault is true, as GetSpec and ListAgents
\* report it
DefaultSpecs == {a \in RegisteredIds : agents[a].IsDefault}

\* C12: after any sequence of Register and RegisterOrUpdate calls at most one
\* registered spec has isDefault = true; if none has it, the agent registered
\* first is the one used as default.
C12_OneDefault ==
  /\ Cardinality(DefaultSpecs) <= 1
  /\ DefaultSpecs = {} /\ answer.fn = "GetDefault" => answer.loop = FirstRegistered

\* ------------------------------------------------------------------------
\* Claims on the pool client
\* ------------------------------------------------------------------------
\* one call of RegisterWithRetry
SpecPool == Init /\ [][PoolNext]_vars

\* C13: RegisterWithRetry makes its first attempt immediately and makes
\* another attempt 5 s after every attempt that ends in a network error, a
\* non-200 status or a response whose success is not true; it stops only when
\* an attempt has succeeded (success = true) or the context is cancelled.
C13_RetryUntilSuccess ==
  /\ ppc = "returned" => pctx \/ outcomes[Len(outcomes)] = "success"
  /\ ppc = "select" => outcomes[Len(outcomes)] # "success"
  /\ ppc = "attempt" /\ outcomes = <<>> => ticker = 0

\* WebSocket connections, the heartbeat broadcaster and the shutdown of one
\* Server
SpecWS == Init /\ [][WSNext]_vars

\* C14: whenever a WebSocket connection ends (peer close, read error or
\* deadline, or removal as dead by the heartbeat broadcaster) and no
\* connections remain afterwards, ReRegisterFn is triggered: a connection
\* whose removal left the set empty has started ReRegisterFn by the time its
\* handler returns.
C14_ReRegisterWhenLastEnds ==
  \A c \in Conns : wsh[c] = "returned" /\ c \in leftEmpty => c \in triggeredBy

\* C15: after a clean shutdown (server context cancelled and closeAllWS
\* executed) WSConnectionCount is 0 and stays 0, for every interleaving with
\* upgrade requests in progress and connection read loops.
C15_NoConnectionsAfterShutdown ==
  sctx /\ shut \in {"closed", "down"} => WSConnectionCount = 0

\* /api/chat requests against a registry that agents are registered in
SpecChat == Init /\ [][ChatNext]_vars

\* C16: whenever the lane handler returns a result with a non-empty error
\* string, the /api/chat request that receives that result is answered with
\* HTTP 500 carrying that message.
C16_HandlerErrorIs500 ==
  \A h \in Chats :
    chat[h].pc \in {"deferred", "deferred total", "done"} /\ chat[h].err = ""
      /\ chat[h].res.Error # ""
    => chat[h].status = 500 /\ chat[h].body = chat[h].res.Error

\* the accepted requests whose handleChat has returned
Finished == {h \in Chats : chat[h].kind = "accepted" /\ chat[h].pc = "done"}

\* C17: totalRequests always equals the number of accepted /api/chat requests
\* that have completed: each accepted request increments it exactly once
\* whatever the outcome, rejected requests never do, also under concurrent
\* requests.
C17_TotalRequestsCountsAccepted ==
  /\ totalRequests = Cardinality(Finished)
  /\ \A h \in Chats :
       chat[h].pc = "done" => chat[h].counted = IF chat[h].kind = "accepted" THEN 1 ELSE 0

\* two accepted requests have completed, one with a handler error or a
\* cancellation, and a rejected request would be the third
C17_Witness ==
  /\ Cardinality(Finished) = 2
  /\ \E h \in Finished : chat[h].err # ""
  /\ \E h \in Finished : chat[h].err = "" /\ chat[h].res.Error = ""

\* the lane manager of a server that is shut down: Server.Stop calls
\* Manager.Stop, and the context Submit is given is that of the HTTP request,
\* which only the client's departure cancels.  The shutdown comes within five
\* minutes of the first request, so no idle timer fires and no sweep finds a
\* lane to delete.
StopNext ==
  \/ \E r \in Requests, m \in ModeArgs : SubmitStart(r, 1, m)
  \/ \E r \in Requests : SubmitEnqueue(r)
  \/ \E r \in Requests : SubmitCtxDone(r)
  \/ \E r \in Requests : SubmitRecv(r)
  \/ \E i \in LaneIds : WorkerDequeue(i)
  \/ \E i \in LaneIds : CollectExtra(i)
  \/ \E i \in LaneIds : CollectClose(i)
  \/ \E i \in LaneIds : InterruptNewer(i)
  \/ \E i \in LaneIds : InterruptProcess(i)
  \/ \E i \in LaneIds : HandlerReturn(i, TRUE)
  \/ \E i \in LaneIds : WorkerDeliver(i)
  \/ Stop
  \/ \E i \in LaneIds : WorkerStop(i)
  \/ SweeperStop

SpecStop == Init /\ [][StopNext]_vars

\* Manager.Stop has been called and every goroutine of the manager has returned
Stopped == stopCh /\ ~sweeper /\ \A i \in LaneIds : lane[i].wpc \in {"none", "dead"}

\* C18: on shutdown (server-wide context cancelled and lane manager stopped)
\* every Submit that is still pending, queued or awaiting its result, returns
\* with the cancellation error and none remains blocked: once the manager has
\* stopped, no Submit is left waiting with nothing to receive.
C18_ShutdownReleasesSubmits ==
  Stopped => \A r \in Requests : ~(req[r].pc = "wait" /\ done[r] = <<>>)

\* Submit calls whose context may be cancelled before the call or during the
\* enqueue, within five minutes of the first request
CtxNext ==
  \/ \E r \in Requests, m \in ModeArgs : SubmitStart(r, 1, m)
  \/ \E r \in Requests : CtxCancel(r)
  \/ \E r \in Requests : SubmitEnqueue(r)
  \/ \E r \in Requests : SubmitCtxReady(r)
  \/ \E r \in Requests : SubmitRecv(r)
  \/ \E i \in LaneIds : WorkerDequeue(i)
  \/ \E i \in LaneIds : CollectExtra(i)
  \/ \E i \in LaneIds : CollectClose(i)
  \/ \E i \in LaneIds : InterruptNewer(i)
  \/ \E i \in LaneIds : InterruptProcess(i)
  \/ \E i \in LaneIds : HandlerReturn(i, TRUE)
  \/ \E i \in LaneIds : WorkerDeliver(i)

SpecCtx == Init /\ [][CtxNext]_vars

\* C19: if the caller's context is cancelled before Submit is called or while
\* Submit is trying to enqueue the request, Submit returns the context's error.
C19_EarlyCancelReturnsCtxErr ==
  \A r \in Requests : req[r].pc = "done" /\ req[r].cancelled => req[r].err = "ctx"

\* C20: the scheduling mode is selected per request: a request submitted with
\* mode M is put on a lane that processes under M, whether the lane is new or
\* exists from an earlier request submitted with another mode.
C20_ModePerRequest ==
  [][\A r \in Requests, m \in ModeArgs :
       SubmitStart(r, 1, m) => lane'[req'[r].lane].mode = EffectiveMode(m)]_vars

\* the lane manager with requests for several session keys, all in followup
\* mode
KeysNext ==
  \/ \E r \in Requests, k \in Keys : SubmitStart(r, k, ModeFollowup)
  \/ \E r \in Requests : SubmitEnqueue(r)
  \/ \E r \in Requests : SubmitCtxDone(r)
  \/ \E r \in Requests : SubmitRecv(r)
  \/ \E i \in LaneIds : WorkerDequeue(i)
  \/ \E i \in LaneIds : WorkerTimeout(i)
  \/ \E i \in LaneIds : WorkerExit(i)
  \/ \E i \in LaneIds : HandlerReturn(i, TRUE)
  \/ \E i \in LaneIds : WorkerDeliver(i)
  \/ PeriodicCleanup
  \/ Tick

SpecKeys == Init /\ [][KeysNext]_vars

\* C21: at every instant the manager holds at most maxLanes lanes: admitting
\* a lane for a new sessionKey when the manager is full first evicts idle
\* lanes so that the bound is preserved.
C21_AtMostMaxLanes == LenLanes(lanes) <= maxLanes

\* HTTP requests to the routes of one Server
SpecAuth == Init /\ [][AuthNext]_vars

\* request h has been answered and did not carry the configured key
Unauthenticated(h) ==
  /\ hreq[h] # NoHttp
  /\ scfg.apiKey # ""
  /\ hreq[h].auth # "Bearer " \o scfg.apiKey

\* /health is answered by its handler whatever the Authorization header is
HealthOpen ==
  \A h \in HttpIds :
    hreq[h].path = "/health" => hreq[h].status = 200 /\ hreq[h].handler = "handleHealth"

SpecFp == Init /\ [][FpNext]_vars

\* the /ws request of c did not carry the configured fingerprint
Mismatch(c) ==
  wsreq[c] # NoWSReq /\ scfg.wsFingerprint # "" /\ wsreq[c].fp # scfg.wsFingerprint

\* C23: when a server fingerprint is set, a /ws request whose fp parameter
\* does not match it exactly is answered 403 before any upgrade: it is never
\* added to the connection set and no frame from it is ever processed.
C23_FingerprintGate ==
  \A c \in Conns :
    Mismatch(c) => /\ wsreq[c].status = 403
                   /\ wsh[c] = "none"
                   /\ c \notin wsConns
                   /\ wsreq[c].frames = {}

\* one request was refused for its fingerprint while another, with the right
\* one, was upgraded and had a frame processed
C23_Witness ==
  /\ \E c \in Conns : Mismatch(c) /\ wsreq[c].status = 403
  /\ \E c \in Conns : ~Mismatch(c) /\ wsreq[c].fp = "f" /\ wsreq[c].frames # {}

\* one run of RunAgentLoop whose provider calls may fail
FailNext ==
  \/ LoopNext
  \/ \E failure \in ChatFailures : ChatFails(failure)

SpecFail == Init /\ [][FailNext]_vars

\* C24: a provider failure (transport error or non-2xx answer from the LLM
\* endpoint) in any iteration never makes RunAgentLoop or ProcessDirect
\* return an error: the failure is turned into reply content.
C24_ProviderFailureIsContent ==
  lpc = "done" /\ ret.why \in {"transport error", "non-200"}
  => /\ ret.err = "nil" /\ ret.content # ""
     /\ ProcessDirect(ret) = [content |-> ret.content, err |-> "nil"]

\* the request of a later iteration failed, after tool calls were executed
C24_Witness ==
  lpc = "done" /\ ret.why = "transport error" /\ iteration > 1 /\ toolsUsed # <<>>

\* concurrent Apply calls on a hub whose callbacks are registered at any time
SpecCb == Init /\ [][CbNext]_vars

\* s has no element twice
NoRepeat(s) == \A j, k \in 1..Len(s) : j # k => s[j] # s[k]

\* C25: each Apply installs the new configuration first and then, before
\* returning, invokes every change callback registered before it exactly
\* once, in registration order, without holding the hub's lock.
C25_ApplyNotifiesInOrder ==
  \A a \in Appliers :
    /\ ap[a].calls # <<>> => ap[a].set
    /\ ap[a].pc \in {"notify", "callback"} => hmu # a
    /\ IsPrefix(ap[a].calls, cbs) /\ NoRepeat(ap[a].calls)
    /\ ap[a].pc = "returned" => IsPrefix(ap[a].atCall, ap[a].calls)

\* an Apply has returned after it invoked two callbacks, one of which
\* registered a third from inside
C25_Witness ==
  \E a \in Appliers :
    /\ ap[a].pc = "returned"
    /\ Len(ap[a].atCall) = 2
    /\ ap[a].calls = ap[a].atCall
    /\ Len(cbs) = 3

\* calls of routeByKeyword and of resolveRoute on any content
SpecRoute == Init /\ [][RouteNext]_vars

\* the route the stated order gives for the inputs of the call
FirstMatch ==
  IF rcall.roleID # "" /\ rcall.roleID # "general" THEN rcall.roleID
  ELSE IF rcall.mentioned # "" THEN rcall.mentioned
  ELSE IF rcall.kw.score >= 2 THEN rcall.kw.role
  ELSE IF rcall.hasRouter /\ rcall.result.Primary \in validIDs \ {"general"}
       THEN rcall.result.Primary
  ELSE IF rcall.kw.score >= 1 THEN rcall.kw.role
  ELSE "general"

\* C26: the route for a message is the first match in this order: a
\* non-empty, non-"general" roleId of the caller; an @mention mapped to a
\* role; the best keyword role when its score is at least 2; the LLM router's
\* primary when it is a registered role other than "general"; the best
\* keyword role when its score is at least 1; otherwise "general".
C26_RouteOrder == rcall.called => rcall.resolved = FirstMatch

\* C27: keyword routing is a deterministic function of the content: when
\* several roles share the best score, the same role is chosen on every call.
C27_KeywordDeterministic ==
  \A m, n \in 1..MaxKwCalls :
    kwcall[m].called /\ kwcall[n].called /\ kwcall[m].scores = kwcall[n].scores
    => kwcall[m].role = kwcall[n].role

\* one start of the server, with any environment, backend URL and reply
SpecInst == Init /\ [][InstNext]_vars

\* the backend is absent, or the bootstrap did not give an id
Synthesized ==
  /\ inst.pc \in {"chosen", "serving", "stopped"}
  /\ inst.envID = ""
  /\ inst.regURL = "" \/ inst.reply \in {"error", ""}

\* C28: the instance id is the NANOBOT_INSTANCE_ID environment value if set,
\* else the id returned by the backend bootstrap, else a synthesized id; when
\* the backend is absent or the bootstrap fails, the synthesized id is
\* "nanobot-<hostname>-<port>" for a host name of the machine.
C28_InstanceIdPriority ==
  inst.pc \in {"chosen", "serving", "stopped"} =>
    /\ inst.envID # "" => inst.instanceID = inst.envID
    /\ (inst.envID = "" /\ inst.regURL # "" /\ inst.reply \notin {"error", ""})
         => inst.instanceID = inst.reply
    /\ Synthesized =>
         \E h \in {inst.hostname, inst.hostEnv} \ {""} :
            inst.instanceID = HostPortID(h, inst.port)

\* subagents with a bus that other publishers fill and the gateway drains
SpecSub == Init /\ [][SubNext]_vars /\ SubFairness

\* C29: every spawned subagent eventually finishes, having published its
\* completion announcement on the bus and with its id removed from the
\* running set, whatever the provider answers, whether or not the context
\* is cancelled and however many messages are queued on the bus.
C29_SubagentsFinish ==
  \A i \in Subs : (sub[i].pc # "idle") ~> (sub[i].pc = "done" /\ sub[i].announced = 1)

\* /api/chat requests completing over two minutes, with /api/load asked at any time
SpecLoad == Init /\ [][LoadNext]_vars

\* C30: the avgLatencyMs reported by /api/load is the average latency of the
\* /api/chat requests completed within the last 60 seconds; requests older
\* than the window do not influence it (the requests completed when the
\* report was made are the first load.completed entries).
C30_AvgOverLastMinute ==
  load.asked => load.avgLatencyMs = Avg(SubSeq(entries, 1, load.completed), load.at)

\* the lanes whose worker has left its loop on the idle timeout
Unattended == {i \in LaneIds : lane[i].wpc \in {"exiting", "dead"}}

\* C31: a request is never enqueued on, or left queued in, a lane that has no
\* running worker: the worker exits on idle timeout only when the queue is
\* empty and no Submit that obtained the lane is still about to enqueue on
\* it, so the queue of a lane whose worker has left stays empty.
C31_NoRequestWithoutWorker ==
  \A i \in Unattended : lane[i].queue = <<>>

\* the server with its registration routines, its WebSocket connections and
\* its signal handler
SpecLife == Init /\ [][LifeNext]_vars

\* C32: once the shutdown sequence has sent the unregister request, no
\* register request for the instance is sent to the backend afterwards.
C32_NoRegisterAfterUnregister == lateRegisters = 0

\* the RegisterWithRetry goroutines that have started and not returned
ActiveRoutines == {n \in Routines : routine[n] \in {"attempt", "select"}}

\* C33: at most one registration retry routine is active at any time,
\* whatever the sequence of startup registration, WebSocket disconnects,
\* reconnects and dead-connection removals by the heartbeat broadcaster.
C33_OneRetryRoutine == Cardinality(ActiveRoutines) <= 1

\* u has returned from a successful HandleConfigUpdate of the document that
\* has this model, this maxTokens and no agentOverrides
Patched(u, model, maxTokens) ==
  /\ upd[u].pc = "returned" /\ upd[u].op = "HandleConfigUpdate" /\ upd[u].err = "nil"
  /\ upd[u].doc = [model |-> model, maxTokens |-> maxTokens, agentOverrides |-> JAbsent]

\* C34: concurrent configuration updates are not lost: after two
\* HandleConfigUpdate calls with patches on different fields, {"model": "m2"}
\* and {"maxTokens": 2}, Current() reflects both changes.
C34_NoLostUpdate ==
  \A u, v \in Updaters :
    Patched(u, JStr("m2"), JAbsent) /\ Patched(v, JAbsent, JNum(2))
    => current.Model = "m2" /\ current.MaxTokens = 2

\* every Apply call has returned after it invoked the callback of runServer
AllApplied ==
  \A a \in Appliers :
    ap[a].pc = "returned" /\ \E j \in 1..Len(ap[a].calls) : ap[a].calls[j] = 1

\* C35: once all concurrent Apply calls have returned, the provider that the
\* change callback installed in the DynamicProvider is the one built from
\* the configuration Current() returns.
C35_ProviderFollowsCurrent == AllApplied => installed = hcurrent

\* u has returned the parse error from a HandleConfigUpdate during which no
\* other call ran
FailedAlone(u) ==
  /\ upd[u].pc = "returned" /\ upd[u].op = "HandleConfigUpdate"
  /\ upd[u].err = "unmarshal config update" /\ upd[u].alone

\* C36: a snapshot returned by Current() is immutable, the entries of its
\* agentOverrides map included: a HandleConfigUpdate that fails to parse
\* leaves everything unchanged that Current() showed before the call, which
\* is what a snapshot taken before the call shows.
C36_FailedUpdateChangesNothing ==
  \A u \in Updaters : FailedAlone(u) => upd[u].after = upd[u].before

\* C37: the agentId reported in a successful /api/chat response is the id of
\* the agent whose loop processed the request, also when the requested
\* roleId is not registered and the default agent serves the request.
C37_AgentIdIsProcessingAgent ==
  \A h \in Chats : chat[h].status = 200 => chat[h].res.AgentID = chat[h].agent

\* C38: for each source of the instance id, the instanceId the pool client
\* sends in its register and unregister requests is non-empty and equal to
\* the instanceId the server reports on /health and in heartbeats, and the
\* instance that registered is unregistered on shutdown.
C38_ClientIdIsServerId ==
  /\ inst.registered # "none" =>
       inst.registered # "" /\ inst.registered = inst.instanceID
  /\ (inst.pc = "stopped" /\ inst.registered # "none") =>
       inst.unregistered = inst.registered

\* the subagents that were spawned and have not finished
Unfinished == {i \in Subs : sub[i].pc \in {"chat", "announce", "defer"}}

\* C39: subagents that are running at the same time have distinct ids, and
\* RunningCount equals the number of subagents that were spawned and have
\* not yet finished, for any interleaving of Spawn calls and completions.
C39_DistinctIdsAndCount ==
  /\ \A i, j \in Unfinished : i # j => sub[i].taskID # sub[j].taskID
  /\ RunningCount = Cardinality(Unfinished)

\* the requests whose done channel the worker of lane i is about to send on
SendsNext(i) ==
  CASE lane[i].wpc = "deliver" -> {Recipient(i)}
    [] lane[i].wpc = "drain" /\ lane[i].queue # <<>> -> {Latest(i)}
    [] OTHER -> {}

\* C40: each submitted request is sent at most one result on its result
\* channel, in every mode and under every interleaving, so a lane worker
\* never blocks on delivering a result: whenever a worker is about to send
\* on a request's channel, nothing was sent on it before and it has room.
C40_OneResultPerRequest ==
  \A i \in LaneIds : \A r \in SendsNext(i) :
    /\ Len(done[r]) < DoneCap
    /\ r \notin displaced

====
